---- MODULE Spec2Model ----
(***************************************************************************)
(* Model of the score_websites crate: DDRDatabase::update_scores (the      *)
(* select loop over the song-list and per-player score tasks), the score   *)
(* merge of scores.rs and the song-list reconciliation of ddr_song.rs.     *)
(***************************************************************************)
EXTENDS Integers, Naturals, Sequences, FiniteSets, TLC

(***************************************************************************)
(* Bounds of the model.                                                    *)
(***************************************************************************)
\* number of players handed to DDRDatabase::new
NumPlayers == 2
\* number of update_scores calls made on one database
MaxRuns == 2
\* largest score value a fetch delivers
MaxScore == 2
\* number of update_scores calls in the runs checked for termination
MaxFairRuns == 1

Players == 1..NumPlayers

(***************************************************************************)
(* LampType: the derived Ord follows the declaration order.                *)
(***************************************************************************)
FailOrPass == 0
Fail == 1
NoCombo == 2
Life4Combo == 3
GoodGreatCombo == 4
GoodCombo == 5
GreatCombo == 6
PerfectCombo == 7
MarvelousCombo == 8

LampType == FailOrPass..MarvelousCombo

\* std::cmp::max on u32 and on LampType
Max(a, b) == IF a >= b THEN a ELSE b

(***************************************************************************)
(* Option<ScoreCombo>: one record shape for None and Some(ScoreCombo).     *)
(***************************************************************************)
NoneCombo == [some |-> FALSE, score |-> 0, lamp |-> FailOrPass]

ScoreCombo(s, l) == [some |-> TRUE, score |-> s, lamp |-> l]

\* a plausible slip in maximize: only the score is maximized, the lamp of
\* self is kept
maximize_keep_lamp(self, other) ==
    [self EXCEPT !.score = Max(self.score, other.score)]

\* a plausible slip in maximize: the scores are accumulated
maximize_sum(self, other) ==
    [self EXCEPT !.score = self.score + other.score,
                 !.lamp = Max(self.lamp, other.lamp)]

\* a plausible slip in maximize: the slot is improved only by a result whose
\* score is not lower than the stored one
maximize_guarded(self, other) ==
    IF other.score >= self.score
    THEN [self EXCEPT !.score = other.score, !.lamp = Max(self.lamp, other.lamp)]
    ELSE self

\* a plausible slip in maximize: the newer result replaces the stored one
maximize_replace(self, other) == other

\* ScoreCombo::maximize
maximize(self, other) ==
    [self EXCEPT !.score = Max(self.score, other.score),
                 !.lamp = Max(self.lamp, other.lamp)]

\* the match of Scores::update on one difficulty
MergeSlot(ours, theirs) ==
    IF ours.some /\ theirs.some THEN maximize(ours, theirs)
    ELSE IF theirs.some THEN theirs
    ELSE IF ours.some THEN ours
    ELSE NoneCombo

\* the level indexes Index<usize> for Scores accepts
NumSlots == 5
SlotIndex == 0..(NumSlots - 1)

\* Scores::default()
DefaultScores == [i \in SlotIndex |-> NoneCombo]

\* Scores::update: every level index is merged
update(self, other) == [i \in SlotIndex |-> MergeSlot(self[i], other[i])]

\* the number Scores::update reports to its caller: the slots whose value
\* it changed
updateCount(self, other) ==
    Cardinality({i \in SlotIndex : MergeSlot(self[i], other[i]) /= self[i]})

\* Scores::update_from_sanbai_score_entry
update_from_sanbai_score_entry(self, entry) ==
    LET cur == self[entry.difficulty] IN
    IF cur.some
    THEN [self EXCEPT ![entry.difficulty] =
              [cur EXCEPT !.score = Max(cur.score, entry.score),
                          !.lamp = Max(cur.lamp, entry.lamp)]]
    ELSE [self EXCEPT ![entry.difficulty] = ScoreCombo(entry.score, entry.lamp)]

\* the bool update_from_sanbai_score_entry reports: the slot changed
sanbaiEntryChanged(self, entry) ==
    update_from_sanbai_score_entry(self, entry) /= self

(***************************************************************************)
(* Song names are sequences of Unicode scalar values.                      *)
(***************************************************************************)
\* char::is_whitespace on the characters the model uses
IsWhitespace(c) == c \in {9, 10, 13, 32, 12288}

\* the character table of normalize_name
FoldChar(c) ==
    CASE c = 65281 -> 33
      [] c = 65288 -> 40
      [] c = 65289 -> 41
      [] c \in {8220, 8221} -> 34
      [] c \in {227, 257} -> 97
      [] c = 65291 -> 43
      [] c = 8217 -> 39
      [] OTHER -> c

\* the flat_map of normalize_name: the ellipsis becomes three periods
ExpandChar(c) == IF c = 8230 THEN <<46, 46, 46>> ELSE <<c>>

RECURSIVE normalize_name(_)
\* normalize_name: filter, map, flat_map over the characters in order
normalize_name(input) ==
    IF input = <<>> THEN <<>>
    ELSE IF IsWhitespace(Head(input)) THEN normalize_name(Tail(input))
         ELSE ExpandChar(FoldChar(Head(input))) \o normalize_name(Tail(input))

RECURSIVE StrLess(_, _)
\* String::cmp = Less: lexicographic order on the scalar values
StrLess(a, b) ==
    IF b = <<>> THEN FALSE
    ELSE IF a = <<>> THEN TRUE
    ELSE IF Head(a) /= Head(b) THEN Head(a) < Head(b)
    ELSE StrLess(Tail(a), Tail(b))

RECURSIVE InsertByKey(_, _)
\* one insertion of the stable sort: x goes after every element whose key
\* is not greater
InsertByKey(x, sorted) ==
    IF sorted = <<>> THEN <<x>>
    ELSE IF StrLess(x.key, Head(sorted).key) THEN <<x>> \o sorted
         ELSE <<Head(sorted)>> \o InsertByKey(x, Tail(sorted))

RECURSIVE SortByKey(_)
\* slice::sort_by on the normalized name (a stable sort)
SortByKey(list) ==
    IF list = <<>> THEN <<>>
    ELSE InsertByKey(list[Len(list)], SortByKey(SubSeq(list, 1, Len(list) - 1)))

\* a plausible slip: the pairs are left in the order of the website's list
NormalizedUnsorted(list) ==
    [i \in 1..Len(list) |-> [key |-> normalize_name(list[i].song_name), song |-> list[i]]]

\* the (normalized name, song) pairs, sorted
Normalized(list) ==
    SortByKey([i \in 1..Len(list) |-> [key |-> normalize_name(list[i].song_name), song |-> list[i]]])

\* Option<SkillAttackIndex>
NoIndex == [some |-> FALSE, index |-> 0]

SomeIndex(i) == [some |-> TRUE, index |-> i]

\* DDRSong::new_from_sanbai_and_skillattack, on the fields the database
\* logic reads
new_from_sanbai_and_skillattack(sanbai, skill_attack) ==
    [song_id |-> sanbai.song_id,
     skill_attack_index |-> skill_attack,
     song_name |-> sanbai.song_name]

RECURSIVE CombineLoop(_, _, _, _, _)
\* the loop of from_combining_song_lists over the two sorted lists
CombineLoop(sa, sanbai, sa_index, sanbai_index, ddr_songs) ==
    IF sanbai_index > Len(sanbai) THEN ddr_songs
    ELSE IF sa_index > Len(sa)
    THEN CombineLoop(sa, sanbai, sa_index, sanbai_index + 1,
             Append(ddr_songs,
                    new_from_sanbai_and_skillattack(sanbai[sanbai_index].song, NoIndex)))
    ELSE IF sa[sa_index].key = sanbai[sanbai_index].key
    THEN CombineLoop(sa, sanbai, sa_index + 1, sanbai_index + 1,
             Append(ddr_songs,
                    new_from_sanbai_and_skillattack(
                        sanbai[sanbai_index].song,
                        SomeIndex(sa[sa_index].song.skill_attack_index))))
    ELSE IF StrLess(sanbai[sanbai_index].key, sa[sa_index].key)
    THEN CombineLoop(sa, sanbai, sa_index, sanbai_index + 1,
             Append(ddr_songs,
                    new_from_sanbai_and_skillattack(sanbai[sanbai_index].song, NoIndex)))
    ELSE CombineLoop(sa, sanbai, sa_index + 1, sanbai_index, ddr_songs)

\* a plausible slip: only the songs found in both lists are kept
from_combining_song_lists_inner_join(sanbai_songs, skill_attack_songs) ==
    LET Linked(song) == song.skill_attack_index.some IN
    SelectSeq(CombineLoop(Normalized(skill_attack_songs), Normalized(sanbai_songs),
                          1, 1, <<>>), Linked)

\* a plausible slip: each Sanbai song looks its name up among the Skill
\* Attack songs and takes the first with that name, so one Skill Attack
\* song can be taken twice
from_combining_song_lists_lookup(sanbai_songs, skill_attack_songs) ==
    LET sa == Normalized(skill_attack_songs)
        sanbai == Normalized(sanbai_songs)
        hits(i) == {j \in 1..Len(sa) : sa[j].key = sanbai[i].key}
        first(i) == CHOOSE j \in hits(i) : \A k \in hits(i) : j <= k
    IN [i \in 1..Len(sanbai) |->
           new_from_sanbai_and_skillattack(
               sanbai[i].song,
               IF hits(i) = {} THEN NoIndex
               ELSE SomeIndex(sa[first(i)].song.skill_attack_index))]

\* DDRSong::from_combining_song_lists
from_combining_song_lists(sanbai_songs, skill_attack_songs) ==
    CombineLoop(Normalized(skill_attack_songs), Normalized(sanbai_songs), 1, 1, <<>>)

\* the song list built when the Skill Attack song list cannot be fetched
song_list_without_skill_attack(sanbai_songs) ==
    [i \in 1..Len(sanbai_songs) |->
        new_from_sanbai_and_skillattack(sanbai_songs[i], NoIndex)]

(***************************************************************************)
(* Player.scores is a HashMap<SongId, Scores>: a function whose domain is  *)
(* the set of keys.                                                        *)
(***************************************************************************)
\* HashMap::new()
EmptyMap == [k \in {} |-> DefaultScores]

\* player.scores.entry(id).or_default()
or_default(map, id) ==
    IF id \in DOMAIN map THEN map
    ELSE [k \in (DOMAIN map) \cup {id} |-> IF k = id THEN DefaultScores ELSE map[k]]

\* Option<&SongId>::None of current_score_entry
NoEntry == 0

RECURSIVE SanbaiRowLoop(_, _, _, _, _)
\* the for loop over the rows of one Sanbai score result: the entry of the
\* previous row is reused while the song id stays the same
SanbaiRowLoop(map, rows, i, current_score_entry, count) ==
    IF i > Len(rows) THEN [scores |-> map, count |-> count]
    ELSE LET score == rows[i] IN
         IF current_score_entry /= NoEntry /\ current_score_entry = score.song_id
         THEN LET entry == map[current_score_entry] IN
              SanbaiRowLoop(
                  [map EXCEPT ![current_score_entry] =
                       update_from_sanbai_score_entry(entry, score)],
                  rows, i + 1, current_score_entry,
                  count + (IF sanbaiEntryChanged(entry, score) THEN 1 ELSE 0))
         ELSE LET withEntry == or_default(map, score.song_id)
                  entry == withEntry[score.song_id] IN
              SanbaiRowLoop(
                  [withEntry EXCEPT ![score.song_id] =
                       update_from_sanbai_score_entry(entry, score)],
                  rows, i + 1, score.song_id,
                  count + (IF sanbaiEntryChanged(entry, score) THEN 1 ELSE 0))

RECURSIVE SanbaiRowLoopNoIdCheck(_, _, _, _)
\* a plausible slip: the kept entry is reused without comparing its song id
\* with the one of the row
SanbaiRowLoopNoIdCheck(map, rows, i, current_score_entry) ==
    IF i > Len(rows) THEN [scores |-> map, count |-> 0]
    ELSE LET score == rows[i]
             id == IF current_score_entry /= NoEntry THEN current_score_entry
                   ELSE score.song_id
             withEntry == or_default(map, id) IN
         SanbaiRowLoopNoIdCheck(
             [withEntry EXCEPT ![id] = update_from_sanbai_score_entry(withEntry[id], score)],
             rows, i + 1, id)

apply_sanbai_scores_no_id_check(map, rows) == SanbaiRowLoopNoIdCheck(map, rows, 1, NoEntry)

\* the body of the "add sanbai user score" branch for one player
apply_sanbai_scores(map, rows) == SanbaiRowLoop(map, rows, 1, NoEntry, 0)

RECURSIVE SkillAttackLoop(_, _, _, _, _)
\* the for loop of process_skill_attack_score over the song list
SkillAttackLoop(map, sa_scores, song_list, i, count) ==
    IF i > Len(song_list) THEN [scores |-> map, count |-> count]
    ELSE LET s == song_list[i] IN
         IF s.skill_attack_index.some /\ s.skill_attack_index.index \in DOMAIN sa_scores
         THEN LET new_score == sa_scores[s.skill_attack_index.index]
                  withEntry == or_default(map, s.song_id)
                  entry == withEntry[s.song_id] IN
              SkillAttackLoop(
                  [withEntry EXCEPT ![s.song_id] = update(entry, new_score)],
                  sa_scores, song_list, i + 1,
                  count + updateCount(entry, new_score))
         ELSE SkillAttackLoop(map, sa_scores, song_list, i + 1, count)

\* a plausible slip: the number returned is the number of score tables
\* received, not the number of slots changed
process_skill_attack_score_count_received(map, sa_scores, song_list) ==
    [scores |-> SkillAttackLoop(map, sa_scores, song_list, 1, 0).scores,
     count |-> Cardinality(DOMAIN sa_scores)]

\* process_skill_attack_score
process_skill_attack_score(map, sa_scores, song_list) ==
    SkillAttackLoop(map, sa_scores, song_list, 1, 0)

\* song_list_index of Player::update_skill_attack_inner: the song id under
\* each Skill Attack index of the song list (collect keeps the last song
\* of an index)
song_list_index(song_list) ==
    LET linked == {i \in 1..Len(song_list) : song_list[i].skill_attack_index.some}
        indexes == {song_list[i].skill_attack_index.index : i \in linked}
        last(x) == CHOOSE i \in linked :
                       /\ song_list[i].skill_attack_index.index = x
                       /\ \A j \in linked :
                             song_list[j].skill_attack_index.index = x => j <= i
    IN [x \in indexes |-> song_list[last(x)].song_id]

RECURSIVE UpdateInnerLoop(_, _, _, _)
\* the for loop of update_skill_attack_inner over the received tables not
\* yet visited: entry(song_id).and_modify(update).or_insert(sa_score)
UpdateInnerLoop(map, index, sa_scores, todo) ==
    IF todo = {} THEN map
    ELSE LET sa_idx == CHOOSE x \in todo : TRUE IN
         IF sa_idx \in DOMAIN index
         THEN LET song_id == index[sa_idx] IN
              UpdateInnerLoop(
                  IF song_id \in DOMAIN map
                  THEN [map EXCEPT ![song_id] = update(@, sa_scores[sa_idx])]
                  ELSE [k \in (DOMAIN map) \cup {song_id} |->
                           IF k = song_id THEN sa_scores[sa_idx] ELSE map[k]],
                  index, sa_scores, todo \ {sa_idx})
         ELSE UpdateInnerLoop(map, index, sa_scores, todo \ {sa_idx})

\* Player::update_skill_attack_inner
update_skill_attack_inner(map, song_list, sa_scores) ==
    UpdateInnerLoop(map, song_list_index(song_list), sa_scores, DOMAIN sa_scores)

(***************************************************************************)
(* What the two websites can answer in one run.                            *)
(***************************************************************************)
SanbaiSong(id, name) == [song_id |-> id, song_name |-> name]

SkillAttackSong(index, name) == [skill_attack_index |-> index, song_name |-> name]

SanbaiScoreEntry(id, difficulty, score, lamp) ==
    [song_id |-> id, difficulty |-> difficulty, score |-> score, lamp |-> lamp]

\* a Skill Attack score table with the given filled slots
ScoresWith(filled) ==
    [i \in SlotIndex |-> IF i \in DOMAIN filled THEN filled[i] ELSE NoneCombo]

\* the song lists of one pull of both websites. In the first, Sanbai lists
\* "B" and "I!O" and Skill Attack lists "I!O" (spelt with a full-width
\* exclamation mark) under index 100. In the second, Sanbai has added "A",
\* Skill Attack has renumbered: "B" is 100, "I! O" is 101, and "Z" (102) is
\* in no Sanbai list
SongListPulls ==
    { [sanbai |-> << SanbaiSong(1, <<66>>), SanbaiSong(2, <<73, 33, 79>>) >>,
       sa |-> << SkillAttackSong(100, <<73, 65281, 79>>) >>],
      [sanbai |-> << SanbaiSong(1, <<66>>), SanbaiSong(2, <<73, 33, 79>>),
                     SanbaiSong(3, <<65>>) >>,
       sa |-> << SkillAttackSong(100, <<66>>),
                 SkillAttackSong(101, <<73, 65281, 32, 79>>),
                 SkillAttackSong(102, <<90>>) >>] }

\* the rows of one Sanbai score answer; song 4 is in no song list
SanbaiRows(v) ==
    IF v = 0
    THEN << SanbaiScoreEntry(1, 0, 1, GreatCombo),
            SanbaiScoreEntry(1, 1, MaxScore, NoCombo),
            SanbaiScoreEntry(2, 0, MaxScore, Fail) >>
    ELSE << SanbaiScoreEntry(2, 0, 1, GreatCombo),
            SanbaiScoreEntry(1, 0, MaxScore, PerfectCombo),
            SanbaiScoreEntry(2, 1, 1, NoCombo),
            SanbaiScoreEntry(4, 0, 1, Fail) >>

\* the map of one Skill Attack score answer
SkillAttackScores(v) ==
    IF v = 0
    THEN (100 :> ScoresWith(0 :> ScoreCombo(MaxScore, GoodGreatCombo)))
         @@ (102 :> ScoresWith(1 :> ScoreCombo(1, FailOrPass)))
    ELSE (100 :> ScoresWith((0 :> ScoreCombo(1, MarvelousCombo))
                            @@ (1 :> ScoreCombo(MaxScore, FailOrPass))))
         @@ (101 :> ScoresWith(0 :> ScoreCombo(MaxScore, PerfectCombo)))

\* the answers of one run: the two song lists and, for every player, the
\* answer of each website (players alternate between the two answers)
FetchResults ==
    { [sanbai_songs |-> pull.sanbai, sa_songs |-> pull.sa,
       sanbai_scores |-> [p \in Players |-> SanbaiRows((p + v) % 2)],
       sa_scores |-> [p \in Players |-> SkillAttackScores((p + v) % 2)]] :
      pull \in SongListPulls, v \in 0..1 }

(***************************************************************************)
(* State.                                                                  *)
(***************************************************************************)
VARIABLES
    songs,               \* DDRDatabase.songs
    players,             \* DDRDatabase.players
    pc,                  \* where update_scores is
    ret,                 \* what the last update_scores returned
    runs,                \* update_scores calls so far
    fetched,             \* what the websites answer in this run
    sanbai_song_list,    \* task state of get_sanbai_song_data
    sa_song_list,        \* task state of get_skill_attack_songs
    sanbai_user_scores,  \* task state per player of get_sanbai_scores
    sa_user_scores,      \* task state per player of skill_attack::get_scores
    sanbai_songs,        \* local: the awaited Sanbai song list
    sa_songs_updated,    \* local flag
    skip_skill_attack,   \* local flag
    num_new_songs,       \* local counter
    num_new_scores,      \* local counter
    start,               \* the database as it was when the run started
    merges,              \* per website and player: results merged in this run
    merge                    \* inputs and results of the score merges applied on their own

dbVars == << songs, players, pc, ret, runs, fetched, sanbai_song_list, sa_song_list,
             sanbai_user_scores, sa_user_scores, sanbai_songs, sa_songs_updated,
             skip_skill_attack, num_new_songs, num_new_scores, start, merges >>

vars == << dbVars, merge >>

\* states of a spawned task: not spawned, running, finished with Ok or Err
\* and not yet received, and received by update_scores as Ok or as Err
TaskStates == {"none", "running", "ok", "err", "taken_ok", "taken_err"}

\* the state of a task whose result update_scores has received
Taken(state) == IF state = "ok" THEN "taken_ok" ELSE "taken_err"

NoReturn == [done |-> FALSE, ok |-> FALSE, err |-> "", new_songs |-> 0, new_scores |-> 0]

ReturnOk(n, m) == [done |-> TRUE, ok |-> TRUE, err |-> "", new_songs |-> n, new_scores |-> m]

ReturnErr(e) == [done |-> TRUE, ok |-> FALSE, err |-> e, new_songs |-> 0, new_scores |-> 0]

NoFetch ==
    [sanbai_songs |-> <<>>, sa_songs |-> <<>>,
     sanbai_scores |-> [p \in Players |-> <<>>],
     sa_scores |-> [p \in Players |-> EmptyMap]]

NoMerges == [w \in {"sanbai", "sa"} |-> [p \in Players |-> 0]]

\* no score merge is applied on its own
NoMergeInput == [phase |-> "none"]

\* DDRDatabase { songs: vec![], players } with the players made by
\* Player::new (no scores); those of without have no Sanbai username
InitDatabase(without) ==
    /\ songs = <<>>
    /\ players = [p \in Players |->
                     [sanbai_username |-> p \notin without, scores |-> EmptyMap]]
    /\ pc = "idle"
    /\ ret = NoReturn
    /\ runs = 0
    /\ fetched = NoFetch
    /\ sanbai_song_list = "none"
    /\ sa_song_list = "none"
    /\ sanbai_user_scores = [p \in Players |-> "none"]
    /\ sa_user_scores = [p \in Players |-> "none"]
    /\ sanbai_songs = <<>>
    /\ sa_songs_updated = FALSE
    /\ skip_skill_attack = FALSE
    /\ num_new_songs = 0
    /\ num_new_scores = 0
    /\ start = [songs |-> <<>>, players |-> players]
    /\ merges = NoMerges

\* the last player may have no Sanbai username
Init ==
    /\ \E without \in {{}, {NumPlayers}} : InitDatabase(without)
    /\ merge = NoMergeInput

(***************************************************************************)
(* update_scores.                                                          *)
(***************************************************************************)
\* a plausible slip: a Sanbai score task for every player
SpawnsSanbaiTaskAll(p) == TRUE

\* the players a Sanbai score task is spawned for: those with a username
SpawnsSanbaiTask(p) == players[p].sanbai_username

\* the players a Skill Attack score task is spawned for: all of them
SpawnsSkillAttackTask(p) == TRUE

\* a plausible slip: a stream with nothing ready counts as finished
StreamDoneNothingReady(stream) ==
    \A p \in Players : stream[p] \notin {"ok", "err"}

\* FuturesUnordered::next() is None: no task of the stream is left
StreamDone(stream) ==
    \A p \in Players : stream[p] \in {"none", "taken_ok", "taken_err"}

\* a plausible slip: the branch stays enabled after Skill Attack was found
\* to be down
SaSongListGuardNoSkip == ~sa_songs_updated

\* precondition of the "update self.songs" branch
SaSongListGuard == ~sa_songs_updated /\ ~skip_skill_attack

\* a plausible slip: the branch does not wait for the combined song list
SaUserScoresGuardNoWait == ~skip_skill_attack

\* a plausible slip: the branch has no precondition at all
SaUserScoresGuardMissing == TRUE

\* precondition of the "add skill attack user score" branch
SaUserScoresGuard == sa_songs_updated /\ ~skip_skill_attack

\* update_scores is called (the first call is the one of DDRDatabase::new,
\* whose database is dropped when the call fails): the four task groups are
\* spawned and the locals initialised. The websites answer with one of
\* results; limit bounds the number of calls
CallUpdateScores(limit, results) ==
    /\ \/ pc = "idle"
       \/ pc = "done" /\ (ret.ok \/ runs > 1)
    /\ runs < limit
    /\ runs' = runs + 1
    /\ \E f \in results : fetched' = f
    /\ sanbai_song_list' = "running"
    /\ sa_song_list' = "running"
    /\ sanbai_user_scores' =
           [p \in Players |-> IF SpawnsSanbaiTask(p) THEN "running" ELSE "none"]
    /\ sa_user_scores' =
           [p \in Players |-> IF SpawnsSkillAttackTask(p) THEN "running" ELSE "none"]
    /\ pc' = "await_sanbai_songs"
    /\ ret' = NoReturn
    /\ sanbai_songs' = <<>>
    /\ sa_songs_updated' = FALSE
    /\ skip_skill_attack' = FALSE
    /\ num_new_songs' = 0
    /\ num_new_scores' = 0
    /\ start' = [songs |-> songs, players |-> players]
    /\ merges' = NoMerges
    /\ UNCHANGED << merge, songs, players >>

StartRun == CallUpdateScores(MaxRuns, FetchResults)

\* a spawned task runs on its own: its fetch ends with Ok or with Err while
\* update_scores has not returned
SanbaiSongListResolves ==
    /\ pc \in {"await_sanbai_songs", "select"}
    /\ sanbai_song_list = "running"
    /\ \E outcome \in {"ok", "err"} : sanbai_song_list' = outcome
    /\ UNCHANGED << merge, songs, players, pc, ret, runs, fetched, sa_song_list,
                    sanbai_user_scores, sa_user_scores, sanbai_songs, sa_songs_updated,
                    skip_skill_attack, num_new_songs, num_new_scores, start, merges >>

SaSongListResolves ==
    /\ pc \in {"await_sanbai_songs", "select"}
    /\ sa_song_list = "running"
    /\ \E outcome \in {"ok", "err"} : sa_song_list' = outcome
    /\ UNCHANGED << merge, songs, players, pc, ret, runs, fetched, sanbai_song_list,
                    sanbai_user_scores, sa_user_scores, sanbai_songs, sa_songs_updated,
                    skip_skill_attack, num_new_songs, num_new_scores, start, merges >>

SanbaiUserScoresResolves(p) ==
    /\ pc \in {"await_sanbai_songs", "select"}
    /\ sanbai_user_scores[p] = "running"
    /\ \E outcome \in {"ok", "err"} :
          sanbai_user_scores' = [sanbai_user_scores EXCEPT ![p] = outcome]
    /\ UNCHANGED << merge, songs, players, pc, ret, runs, fetched, sanbai_song_list,
                    sa_song_list, sa_user_scores, sanbai_songs, sa_songs_updated,
                    skip_skill_attack, num_new_songs, num_new_scores, start, merges >>

SaUserScoresResolves(p) ==
    /\ pc \in {"await_sanbai_songs", "select"}
    /\ sa_user_scores[p] = "running"
    /\ \E outcome \in {"ok", "err"} :
          sa_user_scores' = [sa_user_scores EXCEPT ![p] = outcome]
    /\ UNCHANGED << merge, songs, players, pc, ret, runs, fetched, sanbai_song_list,
                    sa_song_list, sanbai_user_scores, sanbai_songs, sa_songs_updated,
                    skip_skill_attack, num_new_songs, num_new_scores, start, merges >>

\* a plausible slip: a failed Sanbai song list is replaced by an empty one
\* and the run goes on
AwaitSanbaiSongsDefaultsOnErr ==
    /\ pc = "await_sanbai_songs"
    /\ sanbai_song_list \in {"ok", "err"}
    /\ sanbai_song_list' = Taken(sanbai_song_list)
    /\ sanbai_songs' = (IF sanbai_song_list = "ok" THEN fetched.sanbai_songs ELSE <<>>)
    /\ pc' = "select"
    /\ UNCHANGED << merge, songs, players, ret, runs, fetched, sa_song_list, sanbai_user_scores,
                    sa_user_scores, sa_songs_updated, skip_skill_attack,
                    num_new_songs, num_new_scores, start, merges >>

\* let sanbai_songs = sanbai_song_list.await.expect(..)?
AwaitSanbaiSongs ==
    /\ pc = "await_sanbai_songs"
    /\ sanbai_song_list \in {"ok", "err"}
    /\ sanbai_song_list' = Taken(sanbai_song_list)
    /\ IF sanbai_song_list = "ok"
       THEN /\ sanbai_songs' = fetched.sanbai_songs
            /\ pc' = "select"
            /\ ret' = ret
       ELSE /\ sanbai_songs' = sanbai_songs
            /\ pc' = "done"
            /\ ret' = ReturnErr("sanbai_song_list")
    /\ UNCHANGED << merge, songs, players, runs, fetched, sa_song_list, sanbai_user_scores,
                    sa_user_scores, sa_songs_updated, skip_skill_attack,
                    num_new_songs, num_new_scores, start, merges >>

\* a plausible slip (the line the code has commented out): the error of the
\* Skill Attack song list is returned with "?"
SelectSaSongListPropagates ==
    /\ pc = "select"
    /\ SaSongListGuard
    /\ sa_song_list \in {"ok", "err"}
    /\ sa_song_list' = Taken(sa_song_list)
    /\ IF sa_song_list = "err"
       THEN /\ pc' = "done"
            /\ ret' = ReturnErr("sa_song_list")
            /\ UNCHANGED << songs, num_new_songs, sa_songs_updated >>
       ELSE LET new_song_list ==
                    from_combining_song_lists(sanbai_songs, fetched.sa_songs) IN
            /\ num_new_songs' = (IF Len(new_song_list) >= Len(songs)
                                 THEN Len(new_song_list) - Len(songs) ELSE 0)
            /\ songs' = new_song_list
            /\ sa_songs_updated' = TRUE
            /\ UNCHANGED << pc, ret >>
    /\ UNCHANGED << merge, players, runs, fetched, sanbai_song_list, skip_skill_attack,
                    sanbai_user_scores, sa_user_scores, sanbai_songs,
                    num_new_scores, start, merges >>

\* a plausible slip: the branch has no precondition and reads the result of
\* the song list task again after it was received
SelectSaSongListAgain ==
    /\ pc = "select"
    /\ sa_song_list \in {"ok", "err", "taken_ok", "taken_err"}
    /\ sa_song_list' = (IF sa_song_list \in {"ok", "taken_ok"} THEN "taken_ok" ELSE "taken_err")
    /\ IF sa_song_list \in {"err", "taken_err"}
       THEN /\ songs' = song_list_without_skill_attack(sanbai_songs)
            /\ skip_skill_attack' = TRUE
            /\ UNCHANGED << num_new_songs, sa_songs_updated >>
       ELSE LET new_song_list ==
                    from_combining_song_lists(sanbai_songs, fetched.sa_songs) IN
            /\ num_new_songs' = (IF Len(new_song_list) >= Len(songs)
                                 THEN Len(new_song_list) - Len(songs) ELSE 0)
            /\ songs' = new_song_list
            /\ sa_songs_updated' = TRUE
            /\ UNCHANGED skip_skill_attack
    /\ UNCHANGED << merge, players, pc, ret, runs, fetched, sanbai_song_list,
                    sanbai_user_scores, sa_user_scores, sanbai_songs,
                    num_new_scores, start, merges >>

\* select! branch "update self.songs with combined skill attack/sanbai list"
SelectSaSongList ==
    /\ pc = "select"
    /\ SaSongListGuard
    /\ sa_song_list \in {"ok", "err"}
    /\ sa_song_list' = Taken(sa_song_list)
    /\ IF sa_song_list = "err"
       THEN /\ songs' = song_list_without_skill_attack(sanbai_songs)
            /\ skip_skill_attack' = TRUE
            /\ UNCHANGED << num_new_songs, sa_songs_updated >>
       ELSE LET new_song_list ==
                    from_combining_song_lists(sanbai_songs, fetched.sa_songs) IN
            /\ num_new_songs' = (IF Len(new_song_list) >= Len(songs)
                                 THEN Len(new_song_list) - Len(songs) ELSE 0)
            /\ songs' = new_song_list
            /\ sa_songs_updated' = TRUE
            /\ UNCHANGED skip_skill_attack
    /\ UNCHANGED << merge, players, pc, ret, runs, fetched, sanbai_song_list,
                    sanbai_user_scores, sa_user_scores, sanbai_songs,
                    num_new_scores, start, merges >>

\* a plausible slip: the result of player p merged into every player
SelectSanbaiUserScoreEveryPlayer(p) ==
    /\ pc = "select"
    /\ sanbai_user_scores[p] \in {"ok", "err"}
    /\ sanbai_user_scores' = [sanbai_user_scores EXCEPT ![p] = Taken(@)]
    /\ IF sanbai_user_scores[p] = "err"
       THEN /\ pc' = "done"
            /\ ret' = ReturnErr("sanbai_user_scores")
            /\ UNCHANGED << players, num_new_scores, merges >>
       ELSE /\ players' = [q \in Players |->
                              [players[q] EXCEPT !.scores =
                                  apply_sanbai_scores(players[q].scores,
                                                      fetched.sanbai_scores[p]).scores]]
            /\ num_new_scores' = num_new_scores
                   + apply_sanbai_scores(players[p].scores, fetched.sanbai_scores[p]).count
            /\ merges' = [merges EXCEPT !["sanbai"][p] = @ + 1]
            /\ UNCHANGED << pc, ret >>
    /\ UNCHANGED << merge, songs, runs, fetched, sanbai_song_list, sa_song_list,
                    sa_user_scores, sanbai_songs, sa_songs_updated, skip_skill_attack,
                    num_new_songs, start >>

\* select! branch "add sanbai user score" receiving the result of player p
SelectSanbaiUserScore(p) ==
    /\ pc = "select"
    /\ sanbai_user_scores[p] \in {"ok", "err"}
    /\ sanbai_user_scores' = [sanbai_user_scores EXCEPT ![p] = Taken(@)]
    /\ IF sanbai_user_scores[p] = "err"
       THEN /\ pc' = "done"
            /\ ret' = ReturnErr("sanbai_user_scores")
            /\ UNCHANGED << players, num_new_scores, merges >>
       ELSE LET r == apply_sanbai_scores(players[p].scores, fetched.sanbai_scores[p]) IN
            /\ players' = [players EXCEPT ![p].scores = r.scores]
            /\ num_new_scores' = num_new_scores + r.count
            /\ merges' = [merges EXCEPT !["sanbai"][p] = @ + 1]
            /\ UNCHANGED << pc, ret >>
    /\ UNCHANGED << merge, songs, runs, fetched, sanbai_song_list, sa_song_list,
                    sa_user_scores, sanbai_songs, sa_songs_updated, skip_skill_attack,
                    num_new_songs, start >>

\* select! branch "add skill attack user score" receiving the result of
\* player p
SelectSaUserScore(p) ==
    /\ pc = "select"
    /\ SaUserScoresGuard
    /\ sa_user_scores[p] \in {"ok", "err"}
    /\ sa_user_scores' = [sa_user_scores EXCEPT ![p] = Taken(@)]
    /\ IF sa_user_scores[p] = "err"
       THEN /\ pc' = "done"
            /\ ret' = ReturnErr("sa_user_scores")
            /\ UNCHANGED << players, num_new_scores, merges >>
       ELSE LET r == process_skill_attack_score(players[p].scores,
                                                fetched.sa_scores[p], songs) IN
            /\ players' = [players EXCEPT ![p].scores = r.scores]
            /\ num_new_scores' = num_new_scores + r.count
            /\ merges' = [merges EXCEPT !["sa"][p] = @ + 1]
            /\ UNCHANGED << pc, ret >>
    /\ UNCHANGED << merge, songs, runs, fetched, sanbai_song_list, sa_song_list,
                    sanbai_user_scores, sanbai_songs, sa_songs_updated,
                    skip_skill_attack, num_new_songs, start >>

\* select! "else => break", then Ok((num_new_songs, num_new_scores)): every
\* branch is disabled by its precondition or by its stream being finished
SelectElse ==
    /\ pc = "select"
    /\ ~SaSongListGuard
    /\ StreamDone(sanbai_user_scores)
    /\ ~SaUserScoresGuard \/ StreamDone(sa_user_scores)
    /\ pc' = "done"
    /\ ret' = ReturnOk(num_new_songs, num_new_scores)
    /\ UNCHANGED << merge, songs, players, runs, fetched, sanbai_song_list, sa_song_list,
                    sanbai_user_scores, sa_user_scores, sanbai_songs, sa_songs_updated,
                    skip_skill_attack, num_new_songs, num_new_scores, start, merges >>

Next ==
    \/ StartRun
    \/ SanbaiSongListResolves
    \/ SaSongListResolves
    \/ \E p \in Players : SanbaiUserScoresResolves(p)
    \/ \E p \in Players : SaUserScoresResolves(p)
    \/ AwaitSanbaiSongs
    \/ SelectSaSongList
    \/ \E p \in Players : SelectSanbaiUserScore(p)
    \/ \E p \in Players : SelectSaUserScore(p)
    \/ SelectElse

Spec == Init /\ [][Next]_vars

TypeOK ==
    /\ pc \in {"idle", "await_sanbai_songs", "select", "done"}
    /\ runs \in 0..MaxRuns
    /\ sanbai_song_list \in TaskStates
    /\ sa_song_list \in TaskStates
    /\ \A p \in Players : sanbai_user_scores[p] \in TaskStates
    /\ \A p \in Players : sa_user_scores[p] \in TaskStates
    /\ sa_songs_updated \in BOOLEAN
    /\ skip_skill_attack \in BOOLEAN

(***************************************************************************)
(* Properties of update_scores.                                            *)
(***************************************************************************)
\* the song list the run builds when both song lists arrive
ReconciledSongs == from_combining_song_lists(fetched.sanbai_songs, fetched.sa_songs)

\* the score map of player p when the results of the run are applied to
\* the starting database in one fixed order: Sanbai first, then Skill Attack
ScoresInFixedOrder(p) ==
    LET afterSanbai ==
            IF start.players[p].sanbai_username
            THEN apply_sanbai_scores(start.players[p].scores,
                                     fetched.sanbai_scores[p]).scores
            ELSE start.players[p].scores
    IN process_skill_attack_score(afterSanbai, fetched.sa_scores[p],
                                  ReconciledSongs).scores

\* the run returned Ok after receiving both song lists (so every fetch it
\* received succeeded)
AllFetchedOk == pc = "done" /\ ret.ok /\ sa_song_list = "taken_ok"

\* C1: with all fetches successful, whatever the order in which the task
\* results arrived, every player ends with the score tables obtained by
\* applying the same results to the same starting database in one fixed order
C1_FinalTablesIndependentOfOrder ==
    AllFetchedOk => \A p \in Players : players[p].scores = ScoresInFixedOrder(p)

\* a second run ended Ok in which a player with stored scores got results of
\* both websites merged and its tables changed
C1_Witness ==
    /\ AllFetchedOk
    /\ runs = 2
    /\ \E p \in Players :
          /\ merges["sanbai"][p] = 1
          /\ merges["sa"][p] = 1
          /\ start.players[p].scores /= EmptyMap
          /\ players[p].scores /= start.players[p].scores

\* C2: a Skill Attack score result is merged only after the song lists of
\* this run were combined, and with the song list combined in this run;
\* before that no Skill Attack result has been received
C2_SaScoresAfterReconciliation ==
    [][ /\ (\A p \in Players :
              merges'["sa"][p] > merges["sa"][p]
                  => sa_songs_updated /\ songs = ReconciledSongs)
        /\ (pc' = "select" /\ ~sa_songs_updated'
              => \A p \in Players : sa_user_scores'[p] \in {"running", "ok", "err"}) ]_vars

\* in a second run whose song list differs from the one the previous run
\* left, one Skill Attack result has been merged while another is waiting
C2_Witness ==
    /\ runs = 2
    /\ pc = "select"
    /\ songs /= start.songs
    /\ start.songs /= <<>>
    /\ \E p, q \in Players : merges["sa"][p] = 1 /\ sa_user_scores[q] = "ok"

\* the run received no failed score fetch
NoScoreFetchFailed == ret.err \notin {"sanbai_user_scores", "sa_user_scores"}

\* the song list holds one song per Sanbai record, none linked to Skill Attack
PrimaryOnlySongs ==
    /\ Len(songs) = Len(fetched.sanbai_songs)
    /\ \A i \in 1..Len(songs) :
          /\ songs[i].song_id = fetched.sanbai_songs[i].song_id
          /\ ~songs[i].skill_attack_index.some

\* C3: when the Skill Attack song list fails and no received score fetch
\* failed, the run returns Ok with one unlinked song per Sanbai record
C3_DegradedRunReturnsOk ==
    (pc = "done" /\ sa_song_list = "taken_err" /\ NoScoreFetchFailed)
        => ret.ok /\ PrimaryOnlySongs

\* a run ended after the Skill Attack song list failed, with a non-empty
\* song list and a Sanbai result merged
C3_Witness ==
    /\ pc = "done"
    /\ sa_song_list = "taken_err"
    /\ ret.ok
    /\ songs /= <<>>
    /\ \E p \in Players : merges["sanbai"][p] = 1

\* C4: in a run whose Skill Attack song list fetch has failed, no Skill
\* Attack score result is received or merged and the run does not return
\* the error of a Skill Attack score task
C4_NoSaScoresAfterSaDown ==
    (sa_song_list \in {"err", "taken_err"})
        => /\ \A p \in Players :
                 /\ merges["sa"][p] = 0
                 /\ sa_user_scores[p] \in {"running", "ok", "err"}
           /\ ret.err /= "sa_user_scores"

\* the run ended Ok after Skill Attack was found down, with a successful and
\* a failed Skill Attack score result left unreceived
C4_Witness ==
    /\ pc = "done"
    /\ ret.ok
    /\ skip_skill_attack
    /\ \E p, q \in Players : sa_user_scores[p] = "ok" /\ sa_user_scores[q] = "err"

\* C5: when the Sanbai song list fetch fails, the run returns that error
\* and the song list and the players are as they were before the run
C5_PrimaryFailureLeavesDatabase ==
    (sanbai_song_list \in {"err", "taken_err"})
        => /\ songs = start.songs
           /\ players = start.players
           /\ pc = "done" => ret = ReturnErr("sanbai_song_list")

\* a second run returned the Sanbai song list error while score results of
\* both websites were ready, on a database holding songs and scores
C5_Witness ==
    /\ pc = "done"
    /\ runs = 2
    /\ ret = ReturnErr("sanbai_song_list")
    /\ songs /= <<>>
    /\ \E p \in Players :
          /\ players[p].scores /= EmptyMap
          /\ sanbai_user_scores[p] = "ok"
          /\ sa_user_scores[p] = "ok"

\* C6 (as claimed): once the Sanbai song list has arrived the run returns
\* Ok, whatever score fetch failed, and no successful Sanbai score result
\* is left unmerged
C6_ScoreFailureDoesNotAbort ==
    (pc = "done" /\ sanbai_song_list = "taken_ok")
        => /\ ret.ok
           /\ \A p \in Players : sanbai_user_scores[p] /= "ok"

\* C7: no result is merged twice, and when the run returns Ok every Sanbai
\* score task was received with its result merged once, and every Skill
\* Attack score task likewise unless Skill Attack was found down, in which
\* case none was merged
C7_EveryResultMergedOnce ==
    /\ \A p \in Players : merges["sanbai"][p] <= 1 /\ merges["sa"][p] <= 1
    /\ (pc = "done" /\ ret.ok) =>
          \A p \in Players :
             /\ IF SpawnsSanbaiTask(p)
                THEN sanbai_user_scores[p] = "taken_ok" /\ merges["sanbai"][p] = 1
                ELSE sanbai_user_scores[p] = "none" /\ merges["sanbai"][p] = 0
             /\ IF skip_skill_attack
                THEN merges["sa"][p] = 0
                ELSE sa_user_scores[p] = "taken_ok" /\ merges["sa"][p] = 1

\* a run returned Ok with the song lists combined and every player's Skill
\* Attack result merged, one player having no Sanbai task
C7_Witness ==
    /\ pc = "done"
    /\ ret.ok
    /\ sa_songs_updated
    /\ \A p \in Players : merges["sa"][p] = 1
    /\ \E p \in Players : ~SpawnsSanbaiTask(p)

\* C13: in every step, for every player, every song key of the score map
\* stays a key, and every filled slot stays filled with a score and a lamp
\* that are not lower than before
C13_ScoresNeverDecrease ==
    [][ \A p \in Players : \A k \in DOMAIN players[p].scores :
           /\ k \in DOMAIN players'[p].scores
           /\ \A i \in SlotIndex :
                 players[p].scores[k][i].some =>
                     /\ players'[p].scores[k][i].some
                     /\ players'[p].scores[k][i].score >= players[p].scores[k][i].score
                     /\ players'[p].scores[k][i].lamp >= players[p].scores[k][i].lamp ]_vars

\* in a second run that replaced the song list, a Skill Attack result was
\* merged into a player whose stored slots include one the run raised in
\* score and one, holding the highest score, that it left as it was
C13_Witness ==
    /\ runs = 2
    /\ songs /= start.songs
    /\ \E p \in Players :
          /\ merges["sa"][p] = 1
          /\ merges["sanbai"][p] = 1
          /\ \E k \in DOMAIN start.players[p].scores : \E i, j \in SlotIndex :
                /\ start.players[p].scores[k][i].some
                /\ players[p].scores[k][i].score > start.players[p].scores[k][i].score
                /\ start.players[p].scores[k][j].some
                /\ start.players[p].scores[k][j].score = MaxScore
                /\ players[p].scores[k][j] = start.players[p].scores[k][j]

\* the song ids of the database's song list
CatalogIds == {songs[i].song_id : i \in 1..Len(songs)}

\* C14 (as claimed): when a run has returned Ok, every song id that is a key
\* of a player's score map is the id of a song of the song list
C14_ScoreKeysInCatalog ==
    (pc = "done" /\ ret.ok) =>
        \A p \in Players : DOMAIN players[p].scores \subseteq CatalogIds

\* C21 (as claimed): when a run has returned Ok, the song list is sorted by
\* song name, whether the lists were combined or Skill Attack was down
C21_SongListSortedByName ==
    (pc = "done" /\ ret.ok) =>
        \A i, j \in 1..Len(songs) :
            i < j => ~StrLess(songs[j].song_name, songs[i].song_name)

\* C24 (as claimed): when a run returns Ok, the first number returned is the
\* number of songs by which the song list grew during the run, or 0 when it
\* shrank, also when Skill Attack was down
C24_NewSongsIsGrowth ==
    (pc = "done" /\ ret.ok) =>
        ret.new_songs = (IF Len(songs) >= Len(start.songs)
                         THEN Len(songs) - Len(start.songs) ELSE 0)

\* C25 (as claimed): while a run is going on, a Sanbai score result that
\* has completed can be merged at once, whatever the other tasks have done
C25_SanbaiScoreMergeNeverWaits ==
    \A p \in Players :
        (pc \in {"await_sanbai_songs", "select"} /\ sanbai_user_scores[p] = "ok")
            => ENABLED SelectSanbaiUserScore(p)

\* C26 (as claimed): when update_scores has returned an error, no fetch task
\* the run spawned is still running
C26_NoTaskRunningAfterError ==
    (pc = "done" /\ ~ret.ok) =>
        /\ sanbai_song_list /= "running"
        /\ sa_song_list /= "running"
        /\ \A p \in Players :
              sanbai_user_scores[p] /= "running" /\ sa_user_scores[p] /= "running"

(***************************************************************************)
(* Termination of a run: every running fetch task resolves, and            *)
(* update_scores is polled whenever a result it waits for is ready.        *)
(***************************************************************************)
TaskResolves ==
    \/ SanbaiSongListResolves
    \/ SaSongListResolves
    \/ \E p \in Players : SanbaiUserScoresResolves(p)
    \/ \E p \in Players : SaUserScoresResolves(p)

UpdateScoresStep ==
    \/ AwaitSanbaiSongs
    \/ SelectSaSongList
    \/ \E p \in Players : SelectSanbaiUserScore(p)
    \/ \E p \in Players : SelectSaUserScore(p)
    \/ SelectElse

\* the answers of a run in which each list has one entry
SmallFetchResults ==
    { [sanbai_songs |-> << SanbaiSong(1, <<66>>) >>,
       sa_songs |-> << SkillAttackSong(100, <<66>>) >>,
       sanbai_scores |-> [p \in Players |-> << SanbaiScoreEntry(1, 0, 1, GreatCombo) >>],
       sa_scores |-> [p \in Players |->
                         (100 :> ScoresWith(0 :> ScoreCombo(MaxScore, PerfectCombo)))]] }

StartFairRun == CallUpdateScores(MaxFairRuns, SmallFetchResults)

NextFair == StartFairRun \/ TaskResolves \/ UpdateScoresStep

FairSpec ==
    Init /\ [][NextFair]_vars /\ WF_vars(TaskResolves) /\ WF_vars(UpdateScoresStep)

\* C8: every run that has started eventually returns
C8_RunReturns == (pc \in {"await_sanbai_songs", "select"}) ~> (pc = "done")

\* a run returned Ok after Skill Attack was found down while every Skill
\* Attack score task had resolved and none was received
C8_Witness ==
    /\ pc = "done"
    /\ ret.ok
    /\ skip_skill_attack
    /\ \A p \in Players : sa_user_scores[p] \in {"ok", "err"}
    /\ \A p \in Players : SpawnsSanbaiTask(p)

\* C28: the step that starts a run spawns one Sanbai score task for each
\* player with a Sanbai username and none for the others, and one Skill
\* Attack score task for every player (each has a ddr_code); no later step
\* of the run spawns a score task
C28_OneFetchPerAccount ==
    [][ IF pc' = "await_sanbai_songs" /\ pc /= "await_sanbai_songs"
        THEN \A p \in Players :
                 /\ sanbai_user_scores'[p] =
                        (IF players[p].sanbai_username THEN "running" ELSE "none")
                 /\ sa_user_scores'[p] = "running"
        ELSE \A p \in Players :
                 /\ sanbai_user_scores'[p] = "running" => sanbai_user_scores[p] = "running"
                 /\ sa_user_scores'[p] = "running" => sa_user_scores[p] = "running"
                 /\ sanbai_user_scores[p] = "none" => sanbai_user_scores'[p] = "none"
      ]_vars

\* a run has started on a database with a player without a Sanbai username
\* and a player with one
C28_Witness ==
    /\ pc = "await_sanbai_songs"
    /\ \E p, q \in Players :
          /\ ~players[p].sanbai_username
          /\ sanbai_user_scores[p] = "none"
          /\ sa_user_scores[p] = "running"
          /\ players[q].sanbai_username
          /\ sanbai_user_scores[q] = "running"
          /\ sa_user_scores[q] = "running"

(***************************************************************************)
(* One scenario end to end: the song lists hold "A" and "B" on Sanbai and  *)
(* "A" under index 100 on Skill Attack. A first run stores a Sanbai score  *)
(* for A; the next run fetches a Sanbai score for B and a Skill Attack     *)
(* score for index 100.                                                    *)
(***************************************************************************)
\* what the websites answer in the given run of the scenario
EndToEndResults(run) ==
    [sanbai_songs |-> << SanbaiSong(1, <<65>>), SanbaiSong(2, <<66>>) >>,
     sa_songs |-> << SkillAttackSong(100, <<65>>) >>,
     sanbai_scores |-> [p \in Players |->
                           IF run = 1
                           THEN << SanbaiScoreEntry(1, 0, 700000, GoodCombo) >>
                           ELSE << SanbaiScoreEntry(2, 0, 900000, GreatCombo) >>],
     sa_scores |-> [p \in Players |->
                       IF run = 1 THEN EmptyMap
                       ELSE (100 :> ScoresWith(0 :> ScoreCombo(800000, PerfectCombo)))]]

\* the scenario: one update_scores call per entry
EndToEndScript == << EndToEndResults(1), EndToEndResults(2) >>

StartEndToEndRun ==
    /\ runs < Len(EndToEndScript)
    /\ CallUpdateScores(Len(EndToEndScript), {EndToEndScript[runs + 1]})

NextEndToEnd == StartEndToEndRun \/ TaskResolves \/ UpdateScoresStep

SpecEndToEnd == Init /\ [][NextEndToEnd]_vars

\* the score map holding (700000, Good) for A and nothing else
StoredScoreForA == (1 :> ScoresWith(0 :> ScoreCombo(700000, GoodCombo)))

\* C27: when the run of the scenario returns Ok with both song lists
\* received, a player who had (700000, Good) stored for A ends with
\* (800000, Perfect) for A and (900000, Great) for B, whatever the order in
\* which the results arrived
C27_EndToEndScenario ==
    (pc = "done" /\ ret.ok /\ sa_song_list = "taken_ok" /\ fetched = EndToEndResults(2)) =>
        \A p \in Players :
            start.players[p].scores = StoredScoreForA =>
                /\ DOMAIN players[p].scores = {1, 2}
                /\ players[p].scores[1] = ScoresWith(0 :> ScoreCombo(800000, PerfectCombo))
                /\ players[p].scores[2] = ScoresWith(0 :> ScoreCombo(900000, GreatCombo))

\* the second run of the scenario returned Ok with both results merged
\* into a player who had the score for A stored
C27_Witness ==
    /\ pc = "done"
    /\ ret.ok
    /\ runs = 2
    /\ sa_song_list = "taken_ok"
    /\ \E p \in Players :
          /\ start.players[p].scores = StoredScoreForA
          /\ merges["sanbai"][p] = 1
          /\ merges["sa"][p] = 1
          /\ players[p].scores[1][0] = ScoreCombo(800000, PerfectCombo)

(***************************************************************************)
(* The score merge on its own: Scores::update and ScoreCombo::maximize     *)
(* applied to every pair of slots of the bounded score range.              *)
(***************************************************************************)
\* every Option<ScoreCombo> with a score up to MaxScore
Slots == {NoneCombo} \cup {ScoreCombo(s, l) : s \in 0..MaxScore, l \in LampType}

\* two score tables laid out so that their slots pair a with b, b with a,
\* None with b, a with None and b with b
TableA(a, b) == [i \in SlotIndex |-> CASE i \in {0, 3} -> a [] i \in {1, 4} -> b [] OTHER -> NoneCombo]

TableB(a, b) == [i \in SlotIndex |-> CASE i \in {0, 2, 4} -> b [] i = 1 -> a [] OTHER -> NoneCombo]

InitMerge ==
    /\ InitDatabase({})
    /\ \E a \in Slots, b \in Slots :
          merge = [phase |-> "input", a |-> a, b |-> b,
               ab |-> NoneCombo, ba |-> NoneCombo, aa |-> NoneCombo, abb |-> NoneCombo,
               tab |-> DefaultScores, tba |-> DefaultScores, tabb |-> DefaultScores]

\* the slots and the tables are merged in both orders, and a with itself
MergeOnce ==
    /\ merge.phase = "input"
    /\ merge' = [merge EXCEPT !.phase = "merged",
                      !.ab = MergeSlot(merge.a, merge.b),
                      !.ba = MergeSlot(merge.b, merge.a),
                      !.aa = MergeSlot(merge.a, merge.a),
                      !.tab = update(TableA(merge.a, merge.b), TableB(merge.a, merge.b)),
                      !.tba = update(TableB(merge.a, merge.b), TableA(merge.a, merge.b))]
    /\ UNCHANGED dbVars

\* the second operand is merged into the result once more
MergeAgain ==
    /\ merge.phase = "merged"
    /\ merge' = [merge EXCEPT !.phase = "again",
                      !.abb = MergeSlot(merge.ab, merge.b),
                      !.tabb = update(merge.tab, TableB(merge.a, merge.b))]
    /\ UNCHANGED dbVars

NextMerge == MergeOnce \/ MergeAgain

SpecMerge == InitMerge /\ [][NextMerge]_vars

\* both slots are filled and neither is at least the other in score and lamp
Incomparable(a, b) == a.some /\ b.some /\ a.score > b.score /\ a.lamp < b.lamp

\* C9: merging two slots gives the same slot in either order, and merging
\* two score tables slot by slot gives the same table in either order
C9_MergeCommutative ==
    merge.phase \in {"merged", "again"} => merge.ab = merge.ba /\ merge.tab = merge.tba

\* two filled slots were merged of which one has the higher score and the
\* other the higher lamp
C9_Witness ==
    /\ merge.phase = "merged"
    /\ Incomparable(merge.a, merge.b)
    /\ merge.ab = ScoreCombo(merge.a.score, merge.b.lamp)

\* C10: merging the second operand into the result again changes nothing,
\* for slots and for tables, and a slot merged with itself is that slot
C10_MergeIdempotent ==
    merge.phase = "again" => merge.abb = merge.ab /\ merge.tabb = merge.tab /\ merge.aa = merge.a

\* the second operand was merged twice into a slot that it improved in lamp
\* only, the result differing from both operands
C10_Witness ==
    /\ merge.phase = "again"
    /\ Incomparable(merge.a, merge.b)
    /\ merge.abb /= merge.a
    /\ merge.abb /= merge.b
    /\ merge.tabb[2] = merge.b

\* C12: the merge of two slots is None when both are None, the present slot
\* when exactly one is present and, when both are present, a present slot
\* with the larger score and the larger lamp, each taken on its own
C12_MergeDefinition ==
    merge.phase \in {"merged", "again"} =>
        /\ (~merge.a.some /\ ~merge.b.some) => merge.ab = NoneCombo
        /\ (merge.a.some /\ ~merge.b.some) => merge.ab = merge.a
        /\ (~merge.a.some /\ merge.b.some) => merge.ab = merge.b
        /\ (merge.a.some /\ merge.b.some) =>
              /\ merge.ab.some
              /\ merge.ab.score = Max(merge.a.score, merge.b.score)
              /\ merge.ab.lamp = Max(merge.a.lamp, merge.b.lamp)
        /\ \A i \in SlotIndex :
              merge.tab[i] = MergeSlot(TableA(merge.a, merge.b)[i], TableB(merge.a, merge.b)[i])

\* the merged slot pairs the score of the second operand with the lamp of
\* the first and equals neither
C12_Witness ==
    /\ merge.phase = "merged"
    /\ Incomparable(merge.b, merge.a)
    /\ merge.ab.score = merge.b.score
    /\ merge.ab.lamp = merge.a.lamp
    /\ merge.ab \notin {merge.a, merge.b}

(***************************************************************************)
(* Three slots merged in both groupings.                                   *)
(***************************************************************************)
\* a third table, pairing c with the slots of TableA and TableB
TableC(c) == [i \in SlotIndex |-> IF i \in {0, 1, 2} THEN c ELSE NoneCombo]

InitAssoc ==
    /\ InitDatabase({})
    /\ \E a \in Slots, b \in Slots, c \in Slots :
          merge = [phase |-> "input3", a |-> a, b |-> b, c |-> c,
                   ab_c |-> NoneCombo, a_bc |-> NoneCombo,
                   tab_c |-> DefaultScores, ta_bc |-> DefaultScores]

\* (a merged with b) merged with c, and a merged with (b merged with c)
MergeThree ==
    /\ merge.phase = "input3"
    /\ merge' = [merge EXCEPT !.phase = "merged3",
                      !.ab_c = MergeSlot(MergeSlot(merge.a, merge.b), merge.c),
                      !.a_bc = MergeSlot(merge.a, MergeSlot(merge.b, merge.c)),
                      !.tab_c = update(update(TableA(merge.a, merge.b),
                                              TableB(merge.a, merge.b)), TableC(merge.c)),
                      !.ta_bc = update(TableA(merge.a, merge.b),
                                       update(TableB(merge.a, merge.b), TableC(merge.c)))]
    /\ UNCHANGED dbVars

NextAssoc == MergeThree

SpecAssoc == InitAssoc /\ [][NextAssoc]_vars

\* C11: merging three slots gives the same slot whichever two are merged
\* first, and likewise for three score tables
C11_MergeAssociative ==
    merge.phase = "merged3" => merge.ab_c = merge.a_bc /\ merge.tab_c = merge.ta_bc

\* three filled slots were merged of which the middle one has the lowest
\* score and the highest lamp; the result takes its lamp
C11_Witness ==
    /\ merge.phase = "merged3"
    /\ merge.a.some /\ merge.b.some /\ merge.c.some
    /\ merge.b.score < merge.a.score /\ merge.b.score < merge.c.score
    /\ merge.b.lamp > merge.a.lamp /\ merge.b.lamp > merge.c.lamp
    /\ merge.ab_c = ScoreCombo(Max(merge.a.score, merge.c.score), merge.b.lamp)

(***************************************************************************)
(* Attribution of one Skill Attack score result on its own:                *)
(* process_skill_attack_score and Player::update_skill_attack_inner        *)
(* applied to bounded song lists, score maps and results.                  *)
(***************************************************************************)
\* the song lists the database can hold after a run
AttrSongLists ==
    {from_combining_song_lists(pull.sanbai, pull.sa) : pull \in SongListPulls}
        \cup {song_list_without_skill_attack(pull.sanbai) : pull \in SongListPulls}

\* the Skill Attack indexes a result can hold: 0 and 102 are the index of
\* no song of any of the song lists
AttrIds == {0, 100, 101, 102}

AttrTables ==
    { ScoresWith(0 :> ScoreCombo(MaxScore, GoodGreatCombo)),
      ScoresWith((0 :> ScoreCombo(1, MarvelousCombo)) @@ (1 :> ScoreCombo(MaxScore, FailOrPass))) }

\* every result over a subset of the indexes
AttrResults == UNION {[ids -> AttrTables] : ids \in SUBSET AttrIds}

\* the score maps of a player: empty, or one song with one filled slot
AttrMaps ==
    {EmptyMap} \cup {(k :> ScoresWith(0 :> ScoreCombo(sc, PerfectCombo))) :
                         k \in {1, 2}, sc \in 0..MaxScore}

InitAttribute ==
    /\ InitDatabase({})
    /\ \E song_list \in AttrSongLists, map \in AttrMaps, sa_scores \in AttrResults :
          merge = [phase |-> "attr_input", song_list |-> song_list, map |-> map,
                   sa_scores |-> sa_scores,
                   out |-> [scores |-> EmptyMap, count |-> 0], inner |-> EmptyMap]

\* the result is attributed to the player by both functions
Attribute ==
    /\ merge.phase = "attr_input"
    /\ merge' = [merge EXCEPT !.phase = "attributed",
                      !.out = process_skill_attack_score(merge.map, merge.sa_scores,
                                                         merge.song_list),
                      !.inner = update_skill_attack_inner(merge.map, merge.song_list,
                                                          merge.sa_scores)]
    /\ UNCHANGED dbVars

NextAttribute == Attribute

SpecAttribute == InitAttribute /\ [][NextAttribute]_vars

\* the Skill Attack indexes carried by the songs of a song list
KnownIndexes(song_list) ==
    {song_list[i].skill_attack_index.index :
        i \in {j \in 1..Len(song_list) : song_list[j].skill_attack_index.some}}

\* a result without the tables whose index no song of the song list carries
WithoutUnknown(sa_scores, song_list) ==
    [x \in (DOMAIN sa_scores) \cap KnownIndexes(song_list) |-> sa_scores[x]]

\* C15: the tables of a result whose index no song of the song list carries
\* have no effect: score map and returned count are those of the result
\* without them, and a result made of such tables only leaves the score map
\* as it was and returns 0
C15_UnknownIndexDropped ==
    merge.phase = "attributed" =>
        LET kept == WithoutUnknown(merge.sa_scores, merge.song_list) IN
        /\ merge.out = process_skill_attack_score(merge.map, kept, merge.song_list)
        /\ merge.inner = update_skill_attack_inner(merge.map, merge.song_list, kept)
        /\ kept = EmptyMap =>
              /\ merge.out.scores = merge.map
              /\ merge.out.count = 0
              /\ merge.inner = merge.map

\* a result holding a table of an unknown index next to one of a known
\* index was attributed to a player with stored scores under a song list
\* with linked songs: only the known one changed the score map
C15_Witness ==
    /\ merge.phase = "attributed"
    /\ merge.map /= EmptyMap
    /\ KnownIndexes(merge.song_list) /= {}
    /\ \E x, y \in DOMAIN merge.sa_scores :
          /\ x \notin KnownIndexes(merge.song_list)
          /\ y \in KnownIndexes(merge.song_list)
    /\ merge.out.scores /= merge.map
    /\ merge.out.count > 0
    /\ Cardinality(DOMAIN merge.out.scores) <= Cardinality(DOMAIN merge.map) + 1

\* the slot of a score map, None when the song has no entry
SlotOf(map, k, i) == IF k \in DOMAIN map THEN map[k][i] ELSE NoneCombo

\* the number of (song, difficulty) slots whose value differs between two
\* score maps
ChangedSlots(before, after) ==
    Cardinality({ki \in (DOMAIN after) \X SlotIndex :
                    SlotOf(after, ki[1], ki[2]) /= SlotOf(before, ki[1], ki[2])})

MaxLen == 2

\* "Foo", "foo", "I!O", "I！O" (full-width exclamation mark), "I! O",
\* "Ａ…Ｂ" (full-width letters around an ellipsis) and "A...B"
SongNames ==
    { <<70, 111, 111>>, <<102, 111, 111>>, <<73, 33, 79>>, <<73, 65281, 79>>,
      <<73, 33, 32, 79>>, <<65313, 8230, 65314>>, <<65, 46, 46, 46, 66>> }

\* every list of up to MaxLen names
NameLists == UNION {[1..n -> SongNames] : n \in 0..MaxLen}

\* the Sanbai song list with these names: the song ids are 1, 2, ...
SanbaiSongList(names) == [i \in 1..Len(names) |-> SanbaiSong(i, names[i])]

\* the Skill Attack song list with these names: the indexes are 7, 8, ...
SkillAttackSongList(names) == [i \in 1..Len(names) |-> SkillAttackSong(6 + i, names[i])]

InitCombine ==
    /\ InitDatabase({})
    /\ \E sanbai \in NameLists, sa \in NameLists :
          merge = [phase |-> "combine_input",
                   sanbai |-> SanbaiSongList(sanbai), sa |-> SkillAttackSongList(sa),
                   sanbai_keys |-> <<>>, sa_keys |-> <<>>, out |-> <<>>]

\* the names are normalized and the two lists combined
Combine ==
    /\ merge.phase = "combine_input"
    /\ merge' = [merge EXCEPT !.phase = "combined",
                      !.sanbai_keys = [i \in 1..Len(merge.sanbai) |->
                                          normalize_name(merge.sanbai[i].song_name)],
                      !.sa_keys = [i \in 1..Len(merge.sa) |->
                                      normalize_name(merge.sa[i].song_name)],
                      !.out = from_combining_song_lists(merge.sanbai, merge.sa)]
    /\ UNCHANGED dbVars

NextCombine == Combine

SpecCombine == InitCombine /\ [][NextCombine]_vars

\* C16: the combined list has one song per Sanbai record, with that
\* record's id and name, and no other song: the lengths are equal and no id
\* occurs twice
C16_OneSongPerPrimaryRecord ==
    merge.phase = "combined" =>
        /\ Len(merge.out) = Len(merge.sanbai)
        /\ \A i \in 1..Len(merge.sanbai) :
              Cardinality({j \in 1..Len(merge.out) :
                              /\ merge.out[j].song_id = merge.sanbai[i].song_id
                              /\ merge.out[j].song_name = merge.sanbai[i].song_name}) = 1
        /\ \A j, k \in 1..Len(merge.out) :
              merge.out[j].song_id = merge.out[k].song_id => j = k

\* two Sanbai records, one of them matched, were combined with two Skill
\* Attack records, one of them without a Sanbai match
C16_Witness ==
    /\ merge.phase = "combined"
    /\ Len(merge.sanbai) = 2 /\ Len(merge.sa) = 2
    /\ Cardinality({j \in 1..Len(merge.out) : merge.out[j].skill_attack_index.some}) = 1
    /\ \E i \in 1..2 : \A k \in 1..2 : merge.sa_keys[i] /= merge.sanbai_keys[k]

\* the normalized names of a list are pairwise different
UniqueKeys(keys) == \A i, j \in 1..Len(keys) : keys[i] = keys[j] => i = j

\* the Sanbai record a song of the combined list was built from
RecordOf(song) == CHOOSE i \in 1..Len(merge.sanbai) : merge.sanbai[i].song_id = song.song_id

\* C17: when no normalized name occurs twice in a list, a song of the
\* combined list carries the index of a Skill Attack record exactly if that
\* record has the normalized name of the song's Sanbai record, and carries
\* no index when there is no such record
C17_IndexIffSameNormalizedTitle ==
    (merge.phase = "combined" /\ UniqueKeys(merge.sanbai_keys) /\ UniqueKeys(merge.sa_keys)) =>
        \A j \in 1..Len(merge.out) :
            LET key == merge.sanbai_keys[RecordOf(merge.out[j])]
                same == {i \in 1..Len(merge.sa) : merge.sa_keys[i] = key}
            IN /\ \A i \in 1..Len(merge.sa) :
                     merge.out[j].skill_attack_index = SomeIndex(merge.sa[i].skill_attack_index)
                         <=> i \in same
               /\ same = {} => merge.out[j].skill_attack_index = NoIndex

\* two Sanbai songs were linked to Skill Attack records that come in the
\* opposite order and spell one of the names differently
C17_Witness ==
    /\ merge.phase = "combined"
    /\ UniqueKeys(merge.sanbai_keys) /\ UniqueKeys(merge.sa_keys)
    /\ Len(merge.sanbai) = 2 /\ Len(merge.sa) = 2
    /\ merge.sanbai_keys[1] = merge.sa_keys[2]
    /\ merge.sanbai_keys[2] = merge.sa_keys[1]
    /\ \A j \in 1..2 : merge.out[j].skill_attack_index.some
    /\ \E i \in 1..2 : merge.sanbai[i].song_name /= merge.sa[3 - i].song_name

\* C18: whatever names repeat, every index carried by a song of the combined
\* list is the index of exactly one Skill Attack record, and no two songs
\* carry the same index
C18_IndexRefersToOneRecord ==
    merge.phase = "combined" =>
        /\ \A j \in 1..Len(merge.out) :
              merge.out[j].skill_attack_index.some =>
                  Cardinality({i \in 1..Len(merge.sa) :
                                  merge.sa[i].skill_attack_index
                                      = merge.out[j].skill_attack_index.index}) = 1
        /\ \A j, k \in 1..Len(merge.out) :
              (/\ merge.out[j].skill_attack_index.some
               /\ merge.out[j].skill_attack_index = merge.out[k].skill_attack_index) => j = k

\* two Sanbai records with one normalized name met a single Skill Attack
\* record of that name: one song is linked, the other is not
C18_Witness ==
    /\ merge.phase = "combined"
    /\ Len(merge.sanbai) = 2 /\ Len(merge.sa) = 1
    /\ merge.sanbai_keys[1] = merge.sanbai_keys[2]
    /\ merge.sa_keys[1] = merge.sanbai_keys[1]
    /\ Cardinality({j \in 1..2 : merge.out[j].skill_attack_index.some}) = 1

\* C19 (as claimed): the Sanbai record "Foo" with id 1 and the Skill Attack
\* record "foo" with index 7 give one song with id 1 linked to index 7
C19_CaseInsensitiveMatch ==
    (/\ merge.phase = "combined"
     /\ merge.sanbai = << SanbaiSong(1, <<70, 111, 111>>) >>
     /\ merge.sa = << SkillAttackSong(7, <<102, 111, 111>>) >>)
        => /\ Len(merge.out) = 1
           /\ merge.out[1].song_id = 1
           /\ merge.out[1].skill_attack_index = SomeIndex(7)

\* C20 (as claimed): no normalized name holds whitespace, "I!O" with a
\* full-width or a half-width exclamation mark normalizes to the same name,
\* and the full-width "A", ellipsis, full-width "B" normalizes to "A...B"
C20_NormalizeFoldsFullWidth ==
    merge.phase = "combined" =>
        \A list \in {"sanbai", "sa"} : \A i \in 1..Len(merge[list]) :
            LET name == merge[list][i].song_name
                key == (IF list = "sanbai" THEN merge.sanbai_keys ELSE merge.sa_keys)[i]
            IN /\ \A c \in 1..Len(key) : ~IsWhitespace(key[c])
               /\ name \in {<<73, 65281, 79>>, <<73, 33, 79>>} => key = <<73, 33, 79>>
               /\ name = <<65313, 8230, 65314>> => key = <<65, 46, 46, 46, 66>>

(***************************************************************************)
(* The lamp codes of the two websites on their own.                        *)
(***************************************************************************)
\* largest lamp code tried, next to the ends of the u8 range
MaxLampCode == 9

\* u8::MAX: a code above it does not parse as u8
U8Max == 255

\* Option<LampType>
NoLamp == [some |-> FALSE, lamp |-> FailOrPass]

SomeLamp(l) == [some |-> TRUE, lamp |-> l]

\* LampType::from_skill_attack_index
from_skill_attack_index(index) ==
    CASE index = 0 -> SomeLamp(FailOrPass)
      [] index = 1 -> SomeLamp(GoodGreatCombo)
      [] index = 2 -> SomeLamp(PerfectCombo)
      [] index = 3 -> SomeLamp(MarvelousCombo)
      [] OTHER -> NoLamp

\* a plausible slip: the good and the great full combo exchanged
from_sanbai_lamp_index_swapped(index) ==
    CASE index = 0 -> SomeLamp(Fail)
      [] index = 1 -> SomeLamp(NoCombo)
      [] index = 2 -> SomeLamp(Life4Combo)
      [] index = 3 -> SomeLamp(GreatCombo)
      [] index = 4 -> SomeLamp(GoodCombo)
      [] index = 5 -> SomeLamp(PerfectCombo)
      [] index = 6 -> SomeLamp(MarvelousCombo)
      [] OTHER -> NoLamp

\* LampType::from_sanbai_lamp_index
from_sanbai_lamp_index(index) ==
    CASE index = 0 -> SomeLamp(Fail)
      [] index = 1 -> SomeLamp(NoCombo)
      [] index = 2 -> SomeLamp(Life4Combo)
      [] index = 3 -> SomeLamp(GoodCombo)
      [] index = 4 -> SomeLamp(GreatCombo)
      [] index = 5 -> SomeLamp(PerfectCombo)
      [] index = 6 -> SomeLamp(MarvelousCombo)
      [] OTHER -> NoLamp

\* what parsing one lamp code ends in: a lamp, an error value, or a panic
LampOk(l) == [kind |-> "ok", lamp |-> l]

LampErr == [kind |-> "err", lamp |-> FailOrPass]

LampPanic == [kind |-> "panic", lamp |-> FailOrPass]

\* the closure of get_scores_inner over one entry of the combo type arrays
parse_combo_type(num) ==
    IF num > U8Max THEN LampErr
    ELSE IF from_skill_attack_index(num).some
         THEN LampOk(from_skill_attack_index(num).lamp)
         ELSE LampErr

\* num_to_sanbai_combo: an unknown code reaches todo!()
num_to_sanbai_combo(num) ==
    IF num > U8Max THEN LampErr
    ELSE IF from_sanbai_lamp_index(num).some
         THEN LampOk(from_sanbai_lamp_index(num).lamp)
         ELSE LampPanic

\* the lamp codes tried
LampCodes == (0..MaxLampCode) \cup {U8Max, U8Max + 1}

InitLamp ==
    /\ InitDatabase({})
    /\ \E sa_code \in LampCodes, sanbai_code \in LampCodes :
          merge = [phase |-> "lamp_input", sa_code |-> sa_code, sanbai_code |-> sanbai_code,
                   sa_lamp |-> LampErr, sanbai_lamp |-> LampErr]

\* both websites' parsers read their code
ParseLamps ==
    /\ merge.phase = "lamp_input"
    /\ merge' = [merge EXCEPT !.phase = "lamp_parsed",
                      !.sa_lamp = parse_combo_type(merge.sa_code),
                      !.sanbai_lamp = num_to_sanbai_combo(merge.sanbai_code)]
    /\ UNCHANGED dbVars

NextLamp == ParseLamps

SpecLamp == InitLamp /\ [][NextLamp]_vars

\* C22 (as claimed): a Skill Attack code above 3 and a Sanbai code above 6
\* both parse to an error value, never to a lamp and never to a panic
C22_UnknownLampCodeIsError ==
    merge.phase = "lamp_parsed" =>
        /\ merge.sa_code > 3 => merge.sa_lamp.kind = "err"
        /\ merge.sanbai_code > 6 => merge.sanbai_lamp.kind = "err"


(***************************************************************************)
(* The returned number of new scores and the order in which the score      *)
(* results of one player are merged (FIXME in update_scores).              *)
(***************************************************************************)
\* the score map after the Sanbai answer of the run is merged for player p
AfterSanbaiScores(p, map) ==
    IF start.players[p].sanbai_username
    THEN apply_sanbai_scores(map, fetched.sanbai_scores[p]).scores
    ELSE map

\* the score map after the Skill Attack answer of the run is merged for
\* player p
AfterSkillAttackScores(p, map) ==
    process_skill_attack_score(map, fetched.sa_scores[p], ReconciledSongs).scores

\* the slots changed by the two merges of player p when they happen in the
\* given order, counted on the score maps
CountInOrder(p, sanbaiFirst) ==
    LET s0 == start.players[p].scores
        s1 == IF sanbaiFirst THEN AfterSanbaiScores(p, s0)
                             ELSE AfterSkillAttackScores(p, s0)
        s2 == IF sanbaiFirst THEN AfterSkillAttackScores(p, s1)
                             ELSE AfterSanbaiScores(p, s1)
    IN ChangedSlots(s0, s1) + ChangedSlots(s1, s2)

RECURSIVE CountOfOrders(_, _)
\* the sum of CountInOrder over the players 1..n
CountOfOrders(order, n) ==
    IF n = 0 THEN 0
    ELSE CountInOrder(n, order[n]) + CountOfOrders(order, n - 1)

\* every player's Sanbai answer merged before its Skill Attack answer
SanbaiFirst == [p \in Players |-> TRUE]

\* C29: the number of new scores a run returns is the number of slot
\* changes of one of the merge orders of the same results, and it is not the
\* same for all of them: runs on the same results end with the same score
\* tables and different numbers
C29_CountFollowsArrivalOrder ==
    AllFetchedOk =>
        \E order \in [Players -> BOOLEAN] :
            ret.new_scores = CountOfOrders(order, NumPlayers)

\* a run ended with the score tables of the Sanbai-first order of its
\* results and a number of new scores other than the one of that order
C29_Witness ==
    /\ AllFetchedOk
    /\ \A p \in Players : players[p].scores = ScoresInFixedOrder(p)
    /\ ret.new_scores /= CountOfOrders(SanbaiFirst, NumPlayers)
    /\ \E order \in [Players -> BOOLEAN] :
          ret.new_scores = CountOfOrders(order, NumPlayers)


(***************************************************************************)
(* SongId: a 32 character id string stored as a u128, four bits per        *)
(* character. The u128 is held as its nibbles: bytes[x] is                 *)
(* (bytes >> (x * 4)) & 0xF. Strings are sequences of byte values.         *)
(***************************************************************************)
\* number of alphabet characters put into the id strings tried
MaxIdChars == 4

\* b"01689DIOPQbdiloq"
ALPHABET == << 48, 49, 54, 56, 57, 68, 73, 79, 80, 81, 98, 100, 105, 108, 111, 113 >>

\* the length from_str accepts and Display writes
IdLen == 32

\* let mask = 0xF
mask == 15

\* 'A', a byte outside the alphabet (tests::invalid_ids)
InvalidByte == 65

RECURSIVE BitOr(_, _)
\* a | b
BitOr(a, b) ==
    IF a = 0 THEN b
    ELSE IF b = 0 THEN a
    ELSE ((a % 2) + (b % 2) - (a % 2) * (b % 2)) + 2 * BitOr(a \div 2, b \div 2)

\* ALPHABET.iter().position(|&b| b == byte)
position(byte) ==
    IF \E k \in 1..Len(ALPHABET) : ALPHABET[k] = byte
    THEN [some |-> TRUE,
          pos |-> (CHOOSE k \in 1..Len(ALPHABET) :
                      /\ ALPHABET[k] = byte
                      /\ \A j \in 1..(k - 1) : ALPHABET[j] /= byte) - 1]
    ELSE [some |-> FALSE, pos |-> 0]

\* Result<SongId, SongIdParseError>
SongIdOk(bytes) == [ok |-> TRUE, bytes |-> bytes, err |-> "", arg |-> 0]
SongIdErr(err, arg) == [ok |-> FALSE, bytes |-> [x \in 0..(IdLen - 1) |-> 0],
                        err |-> err, arg |-> arg]

RECURSIVE FromStrLoop(_, _, _)
\* the loop of from_str from the i-th character on
FromStrLoop(s, i, bytes) ==
    IF i > Len(s) THEN SongIdOk(bytes)
    ELSE LET hex_pos == position(s[i]) IN
         IF ~hex_pos.some THEN SongIdErr("InvalidChar", s[i])
         ELSE FromStrLoop(s, i + 1,
                          [bytes EXCEPT ![i - 1] = BitOr(@, hex_pos.pos)])

\* <SongId as FromStr>::from_str
from_str(s) ==
    IF Len(s) /= IdLen THEN SongIdErr("InvalidLength", Len(s))
    ELSE FromStrLoop(s, 1, [x \in 0..(IdLen - 1) |-> 0])

\* a plausible slip: the characters written from the most significant
\* nibble down
to_string_reversed(bytes) ==
    [x \in 1..IdLen |-> ALPHABET[(bytes[IdLen - x] % (mask + 1)) + 1]]

\* <SongId as Display>::fmt
to_string(bytes) ==
    [x \in 1..IdLen |-> ALPHABET[(bytes[x - 1] % (mask + 1)) + 1]]

\* two of the ids of tests::song_id_serialize_deserialize
TestIds ==
    { << 54, 80, 49, 56, 108, 79, 108, 105, 73, 81, 113, 73, 79, 54, 68, 105,
       48, 80, 80, 56, 105, 68, 108, 68, 81, 48, 49, 98, 48, 111, 48, 113 >>,
      << 48, 98, 113, 57, 113, 73, 57, 80, 111, 80, 73, 108, 81, 108, 56, 57,
       98, 68, 79, 54, 48, 111, 57, 113, 56, 73, 49, 105, 73, 80, 54, 54 >> }

\* the characters put at the first and the last place of an id string
IdChars ==
    {ALPHABET[((k * 5) % Len(ALPHABET)) + 1] : k \in 0..(MaxIdChars - 1)}
        \cup {InvalidByte}

\* the strings parsed: ids with the first and the last character replaced,
\* and strings of other lengths
IdStrings ==
    {[id EXCEPT ![1] = c, ![IdLen] = d] : id \in TestIds, c \in IdChars, d \in IdChars}
        \cup {SubSeq(id, 1, IdLen - 1) : id \in TestIds}
        \cup {id \o << id[1] >> : id \in TestIds}
        \cup {<< >>}

InitSongId ==
    /\ InitDatabase({})
    /\ \E s \in IdStrings, t \in IdStrings :
          merge = [phase |-> "id_input", s |-> s, t |-> t,
                   id_s |-> SongIdErr("", 0), id_t |-> SongIdErr("", 0),
                   out_s |-> << >>]

\* s.parse::<SongId>(), t.parse::<SongId>() and to_string() of the first
ParseSongIds ==
    /\ merge.phase = "id_input"
    /\ LET id_s == from_str(merge.s) IN
       merge' = [merge EXCEPT !.phase = "id_parsed",
                       !.id_s = id_s,
                       !.id_t = from_str(merge.t),
                       !.out_s = IF id_s.ok THEN to_string(id_s.bytes) ELSE << >>]
    /\ UNCHANGED dbVars

NextSongId == ParseSongIds

SpecSongId == InitSongId /\ [][NextSongId]_vars

\* a string of 32 characters of the alphabet
IsIdString(s) ==
    Len(s) = IdLen /\ \A k \in 1..Len(s) : \E a \in 1..Len(ALPHABET) : s[k] = ALPHABET[a]

\* C30: a string of 32 characters of the alphabet parses to a SongId whose
\* to_string() is the string, and two such strings parse to equal SongIds
\* exactly when they are equal
C30_SongIdRoundTrip ==
    merge.phase = "id_parsed" =>
        /\ IsIdString(merge.s) => merge.id_s.ok /\ merge.out_s = merge.s
        /\ (IsIdString(merge.s) /\ IsIdString(merge.t)) =>
               ((merge.id_s.bytes = merge.id_t.bytes) <=> (merge.s = merge.t))

\* two valid ids that differ only in the last character, the first ending
\* in 'q', were parsed and the first was written back
C30_Witness ==
    /\ merge.phase = "id_parsed"
    /\ IsIdString(merge.s)
    /\ IsIdString(merge.t)
    /\ merge.s /= merge.t
    /\ SubSeq(merge.s, 1, IdLen - 1) = SubSeq(merge.t, 1, IdLen - 1)
    /\ merge.s[IdLen] = ALPHABET[Len(ALPHABET)]
    /\ merge.id_s.ok
    /\ merge.id_s.bytes[IdLen - 1] = mask
    /\ merge.id_s.bytes /= merge.id_t.bytes
    /\ merge.out_s = merge.s


(***************************************************************************)
(* SongId parsing of malformed strings. A &str is a sequence of            *)
(* characters (code points); s.len() and s.bytes() see its UTF-8 bytes.    *)
(***************************************************************************)
\* the UTF-8 bytes of one character below U+0800
Utf8Char(c) ==
    IF c < 128 THEN << c >>
    ELSE << 192 + (c \div 64), 128 + (c % 64) >>

RECURSIVE Utf8(_)
\* s.bytes(): the UTF-8 bytes of a string
Utf8(chars) ==
    IF chars = << >> THEN << >>
    ELSE Utf8Char(Head(chars)) \o Utf8(Tail(chars))

\* s.parse::<SongId>() of a string given by its characters
parse(chars) == from_str(Utf8(chars))

\* the characters put at the first and the last place: '0', 'q', and the
\* characters 'A', 'Z' and U+00E9 outside the alphabet
MalformedChars == {ALPHABET[1], ALPHABET[Len(ALPHABET)], InvalidByte, 90, 233}

\* ids with the first and the last character replaced
ReplacedIds ==
    {[id EXCEPT ![1] = c, ![IdLen] = d] :
        id \in TestIds, c \in MalformedChars, d \in MalformedChars}

\* the strings parsed: of 32 characters, of 31 (the second one left out)
\* and of 33 (one appended)
MalformedStrings ==
    ReplacedIds
        \cup {<< id[1] >> \o SubSeq(id, 3, IdLen) : id \in ReplacedIds}
        \cup {id \o << ALPHABET[1] >> : id \in ReplacedIds}

InitMalformed ==
    /\ InitDatabase({})
    /\ \E chars \in MalformedStrings :
          merge = [phase |-> "malformed_input", chars |-> chars,
                   id |-> SongIdErr("", 0)]

\* chars.parse::<SongId>()
ParseMalformed ==
    /\ merge.phase = "malformed_input"
    /\ merge' = [merge EXCEPT !.phase = "malformed_parsed", !.id = parse(merge.chars)]
    /\ UNCHANGED dbVars

NextMalformed == ParseMalformed

SpecMalformed == InitMalformed /\ [][NextMalformed]_vars

\* the character c is one of the alphabet
InAlphabet(c) == \E a \in 1..Len(ALPHABET) : c = ALPHABET[a]

\* the first character of the string outside the alphabet
FirstInvalidChar(chars) ==
    chars[CHOOSE k \in 1..Len(chars) :
              /\ ~InAlphabet(chars[k])
              /\ \A j \in 1..(k - 1) : InAlphabet(chars[j])]

\* C31 (as claimed): a string of other than 32 characters parses to
\* InvalidLength of its length, and a string of 32 characters with one
\* outside the alphabet parses to InvalidChar of the first such character
C31_MalformedIdIsError ==
    merge.phase = "malformed_parsed" =>
        /\ Len(merge.chars) /= IdLen =>
               /\ ~merge.id.ok
               /\ merge.id.err = "InvalidLength"
               /\ merge.id.arg = Len(merge.chars)
        /\ (Len(merge.chars) = IdLen /\ \E k \in 1..IdLen : ~InAlphabet(merge.chars[k])) =>
               /\ ~merge.id.ok
               /\ merge.id.err = "InvalidChar"
               /\ merge.id.arg = FirstInvalidChar(merge.chars)


(***************************************************************************)
(* A run on results the database already holds.                            *)
(***************************************************************************)
\* the results of the run are already applied to the database the run
\* starts on: applying them to it gives the same song list and score maps
AlreadyApplied ==
    /\ start.songs = ReconciledSongs
    /\ \A p \in Players : start.players[p].scores = ScoresInFixedOrder(p)

\* C32: a run whose fetches all succeed and whose results are already
\* applied to the database leaves the song list and every player as they
\* were and returns (0, 0)
C32_ReplayChangesNothing ==
    (AllFetchedOk /\ AlreadyApplied) =>
        /\ songs = start.songs
        /\ players = start.players
        /\ ret.new_songs = 0
        /\ ret.new_scores = 0

\* a second run ended Ok on the results the first run had applied, with
\* results of both websites merged into a player who has scores stored
C32_Witness ==
    /\ AllFetchedOk
    /\ AlreadyApplied
    /\ runs = 2
    /\ songs /= << >>
    /\ \E p \in Players :
          /\ merges["sanbai"][p] = 1
          /\ merges["sa"][p] = 1
          /\ fetched.sanbai_scores[p] /= << >>
          /\ \E k \in DOMAIN players[p].scores : \E i \in SlotIndex :
                players[p].scores[k][i].some


(***************************************************************************)
(* What a step of update_scores leaves alone.                              *)
(***************************************************************************)
\* C33: a step that merges a score result of player p changes the score
\* map of no other player, the Sanbai username of no player and not the
\* song list; a step that replaces the song list changes no player
C33_MergeTouchesOnePlayer ==
    [][ /\ \A p \in Players :
              (merges'["sanbai"][p] > merges["sanbai"][p]
                   \/ merges'["sa"][p] > merges["sa"][p])
                  => /\ \A q \in Players \ {p} : players'[q] = players[q]
                     /\ players'[p].sanbai_username = players[p].sanbai_username
                     /\ songs' = songs
        /\ songs' /= songs => players' = players
      ]_vars

\* a score result was merged into one player and changed its score map
\* while another player has scores stored and the song list is not empty
C33_Witness ==
    /\ pc = "select"
    /\ songs /= << >>
    /\ songs /= start.songs
    /\ \E p, q \in Players :
          /\ p /= q
          /\ merges["sanbai"][p] + merges["sa"][p] > 0
          /\ players[p].scores /= start.players[p].scores
          /\ merges["sanbai"][q] + merges["sa"][q] = 0
          /\ players[q].scores /= EmptyMap
          /\ players[q] = start.players[q]


(***************************************************************************)
(* The song list is replaced once in a run.                                *)
(***************************************************************************)
\* C34: in a run the song list changes only in the step that receives the
\* Skill Attack song list result, which sets exactly one of
\* sa_songs_updated and skip_skill_attack; once the result is received,
\* the result, the song list, the number of new songs and the two flags
\* stay as they are until the next run starts
C34_SongListReplacedOnce ==
    [][ /\ songs' /= songs =>
              /\ sa_song_list \in {"ok", "err"}
              /\ sa_song_list' \in {"taken_ok", "taken_err"}
        /\ (sa_song_list \in {"ok", "err"} /\ sa_song_list' \in {"taken_ok", "taken_err"}) =>
              /\ sa_songs_updated' /= skip_skill_attack'
              /\ sa_songs_updated' <=> (sa_song_list = "ok")
        /\ (sa_song_list \in {"taken_ok", "taken_err"} /\ runs' = runs) =>
              /\ sa_song_list' = sa_song_list
              /\ songs' = songs
              /\ num_new_songs' = num_new_songs
              /\ sa_songs_updated' = sa_songs_updated
              /\ skip_skill_attack' = skip_skill_attack
      ]_vars

\* a second run replaced a non-empty song list by a different one, counted
\* new songs and went on to merge a score result
C34_Witness ==
    /\ pc = "select"
    /\ runs = 2
    /\ sa_song_list = "taken_ok"
    /\ sa_songs_updated
    /\ start.songs /= << >>
    /\ songs /= start.songs
    /\ num_new_songs > 0
    /\ \E p \in Players : merges["sa"][p] = 1


(***************************************************************************)
(* A batch of Sanbai score rows applied to a score map: the loop of        *)
(* update_scores, which keeps the entry of the previous row, and           *)
(* Player::update_scores_from_sanbai, which combines adjacent rows of one  *)
(* song before touching the map.                                           *)
(***************************************************************************)
\* length of the longest batch of rows
MaxRows == 3

\* entry(last_song_id).and_modify(|s| s.update(&combined_score))
\*     .or_insert(combined_score)
PushCombined(map, last_song_id, combined_score) ==
    IF last_song_id \in DOMAIN map
    THEN [map EXCEPT ![last_song_id] = update(@, combined_score)]
    ELSE [k \in (DOMAIN map) \cup {last_song_id} |->
             IF k = last_song_id THEN combined_score ELSE map[k]]

RECURSIVE SanbaiCombineLoop(_, _, _, _, _)
\* the do-while loop of update_scores_from_sanbai at the i-th row
SanbaiCombineLoop(map, rows, i, last_song_id, combined_score) ==
    LET score_entry == rows[i]
        same == score_entry.song_id = last_song_id
        pushed == IF same THEN map ELSE PushCombined(map, last_song_id, combined_score)
        combined == update_from_sanbai_score_entry(
                        IF same THEN combined_score ELSE DefaultScores, score_entry)
    IN IF i = Len(rows)
       THEN PushCombined(pushed, score_entry.song_id, combined)
       ELSE SanbaiCombineLoop(pushed, rows, i + 1, score_entry.song_id, combined)

\* Player::update_scores_from_sanbai after the download
update_scores_from_sanbai(map, rows) ==
    IF rows = << >> THEN map
    ELSE SanbaiCombineLoop(map, rows, 1, rows[1].song_id, DefaultScores)

\* the rows a batch is made of
RowSet ==
    {SanbaiScoreEntry(id, d, sl[1], sl[2]) :
        id \in {1, 2}, d \in {0, 1},
        sl \in {<< 1, PerfectCombo >>, << MaxScore, NoCombo >>}}

\* every batch of at most MaxRows rows
RowBatches == UNION {[1..n -> RowSet] : n \in 0..MaxRows}

InitRows ==
    /\ InitDatabase({})
    /\ \E map \in AttrMaps, rows \in RowBatches :
          merge = [phase |-> "rows_input", map |-> map, rows |-> rows,
                   kept |-> EmptyMap, combined |-> EmptyMap]

\* the batch is applied to the map by both functions
ApplyRows ==
    /\ merge.phase = "rows_input"
    /\ merge' = [merge EXCEPT !.phase = "rows_applied",
                      !.kept = apply_sanbai_scores(merge.map, merge.rows).scores,
                      !.combined = update_scores_from_sanbai(merge.map, merge.rows)]
    /\ UNCHANGED dbVars

NextRows == ApplyRows

SpecRows == InitRows /\ [][NextRows]_vars

RECURSIVE OneRowAtATime(_, _, _)
\* every row on its own: the table of its song is looked up (made if
\* missing) and the row is merged into it
OneRowAtATime(map, rows, i) ==
    IF i > Len(rows) THEN map
    ELSE LET id == rows[i].song_id
             table == IF id \in DOMAIN map THEN map[id] ELSE DefaultScores
             merged == update_from_sanbai_score_entry(table, rows[i]) IN
         OneRowAtATime([k \in (DOMAIN map) \cup {id} |-> IF k = id THEN merged ELSE map[k]],
                       rows, i + 1)

\* C35: for every batch of rows, adjacent by song or not, the loop that
\* keeps the entry of the previous row and the loop that combines adjacent
\* rows both give the score map obtained by merging the rows one at a time
C35_KeptEntryIsPlainMerge ==
    merge.phase = "rows_applied" =>
        /\ merge.kept = OneRowAtATime(merge.map, merge.rows, 1)
        /\ merge.combined = OneRowAtATime(merge.map, merge.rows, 1)

\* a batch with rows of one song before and after a row of another song was
\* applied to a map that holds the first song, and changed its slot
C35_Witness ==
    /\ merge.phase = "rows_applied"
    /\ Len(merge.rows) = 3
    /\ merge.rows[1].song_id = merge.rows[3].song_id
    /\ merge.rows[1].song_id /= merge.rows[2].song_id
    /\ merge.rows[1].difficulty = merge.rows[3].difficulty
    /\ merge.rows[1].score /= merge.rows[3].score
    /\ merge.rows[1].song_id \in DOMAIN merge.map
    /\ merge.kept[merge.rows[1].song_id] /= merge.map[merge.rows[1].song_id]
    /\ merge.rows[2].song_id \notin DOMAIN merge.map
    /\ merge.kept = merge.combined


(***************************************************************************)
(* The order of the lamps two codes of one website are mapped to.          *)
(***************************************************************************)
InitLampOrder ==
    /\ InitDatabase({})
    /\ \E a \in 0..MaxLampCode, b \in 0..MaxLampCode :
          merge = [phase |-> "codes_input", a |-> a, b |-> b,
                   sa_a |-> NoLamp, sa_b |-> NoLamp,
                   sanbai_a |-> NoLamp, sanbai_b |-> NoLamp]

\* both codes are mapped by both websites' functions
MapLampCodes ==
    /\ merge.phase = "codes_input"
    /\ merge' = [merge EXCEPT !.phase = "codes_mapped",
                      !.sa_a = from_skill_attack_index(merge.a),
                      !.sa_b = from_skill_attack_index(merge.b),
                      !.sanbai_a = from_sanbai_lamp_index(merge.a),
                      !.sanbai_b = from_sanbai_lamp_index(merge.b)]
    /\ UNCHANGED dbVars

NextLampOrder == MapLampCodes

SpecLampOrder == InitLampOrder /\ [][NextLampOrder]_vars

\* C36: of two codes one website knows, the larger one is mapped to the
\* strictly greater LampType, and maximize of two results that differ in
\* the lamp only keeps the lamp of the larger code
C36_LampMappingsKeepOrder ==
    (merge.phase = "codes_mapped" /\ merge.a < merge.b) =>
        /\ (merge.sa_a.some /\ merge.sa_b.some) =>
               /\ merge.sa_a.lamp < merge.sa_b.lamp
               /\ maximize(ScoreCombo(1, merge.sa_a.lamp),
                           ScoreCombo(1, merge.sa_b.lamp)).lamp = merge.sa_b.lamp
        /\ (merge.sanbai_a.some /\ merge.sanbai_b.some) =>
               /\ merge.sanbai_a.lamp < merge.sanbai_b.lamp
               /\ maximize(ScoreCombo(1, merge.sanbai_b.lamp),
                           ScoreCombo(1, merge.sanbai_a.lamp)).lamp = merge.sanbai_b.lamp

\* the codes 3 and 4 were mapped: Sanbai knows both (good and great full
\* combo), Skill Attack knows only the smaller one
C36_Witness ==
    /\ merge.phase = "codes_mapped"
    /\ merge.a = 3
    /\ merge.b = 4
    /\ merge.sanbai_a = SomeLamp(GoodCombo)
    /\ merge.sanbai_b = SomeLamp(GreatCombo)
    /\ merge.sa_a = SomeLamp(MarvelousCombo)
    /\ ~merge.sa_b.some


(***************************************************************************)
(* One Sanbai score row applied to a score table: the difficulty of the    *)
(* row is a u8 read from the answer, the table is indexed with it.         *)
(***************************************************************************)
\* Difficulties([u8; 9]): the charts Sanbai knows per song, five single
\* and four double
NumDifficulties == 9

\* IndexMut<usize> for Scores: the level indexes 0..4 give a slot, every
\* other index panics with "Invalid score index"
index_mut(index) ==
    IF index \in SlotIndex THEN [panic |-> FALSE, slot |-> index]
    ELSE [panic |-> TRUE, slot |-> 0]

\* Scores::update_from_sanbai_score_entry with its indexing
apply_sanbai_entry(self, sanbai_entry) ==
    IF index_mut(sanbai_entry.difficulty).panic
    THEN [panic |-> TRUE, scores |-> self]
    ELSE [panic |-> FALSE, scores |-> update_from_sanbai_score_entry(self, sanbai_entry)]

\* the rows tried: every difficulty Sanbai knows and the largest u8
RowsOfAnyDifficulty ==
    {SanbaiScoreEntry(1, d, sc, from_sanbai_lamp_index(code).lamp) :
        d \in (0..(NumDifficulties - 1)) \cup {U8Max},
        sc \in {1, MaxScore},
        code \in {c \in 0..MaxLampCode : from_sanbai_lamp_index(c).some}}

InitRowIndex ==
    /\ InitDatabase({})
    /\ \E self \in AttrTables \cup {DefaultScores}, row \in RowsOfAnyDifficulty :
          merge = [phase |-> "row_input", self |-> self, row |-> row,
                   out |-> [panic |-> FALSE, scores |-> self]]

\* entry.update_from_sanbai_score_entry(score)
ApplyRow ==
    /\ merge.phase = "row_input"
    /\ merge' = [merge EXCEPT !.phase = "row_applied",
                      !.out = apply_sanbai_entry(merge.self, merge.row)]
    /\ UNCHANGED dbVars

NextRowIndex == ApplyRow

SpecRowIndex == InitRowIndex /\ [][NextRowIndex]_vars

\* C37 (as claimed): whatever row the answer holds, applying it does not
\* reach the "Invalid score index" panic
C37_RowNeverPanics ==
    merge.phase = "row_applied" => ~merge.out.panic


(***************************************************************************)
(* parse_number_with_commas. A u32 is held as two 16 bit limbs,            *)
(* hi * 2^16 + lo, so that the whole range of the type is covered. An      *)
(* overflow of the arithmetic panics in a debug build and wraps in a       *)
(* release build: the value is the wrapped one and overflow records that   *)
(* the build decides.                                                      *)
(***************************************************************************)
\* length of the longest text made of arbitrary characters
MaxTextLen == 2

\* 2^16, the size of a limb of a u32
LimbBase == 65536

\* 0_u32
U32Zero == [hi |-> 0, lo |-> 0, overflow |-> FALSE]

\* (n * 10) + (b as u32)
MulAdd(n, b) ==
    LET lo10 == n.lo * 10 + b
        hi10 == n.hi * 10 + (lo10 \div LimbBase)
    IN [hi |-> hi10 % LimbBase, lo |-> lo10 % LimbBase,
        overflow |-> n.overflow \/ hi10 >= LimbBase]

\* a plausible slip: zero is not taken for a digit
is_ascii_digit_from_one(b) == b \in 49..57

\* u8::is_ascii_digit
is_ascii_digit(b) == b \in 48..57

RECURSIVE FoldDigits(_, _, _)
\* .filter(u8::is_ascii_digit).map(|b| b - b'0').fold(0_u32, ...) from the
\* i-th byte on
FoldDigits(input, i, n) ==
    IF i > Len(input) THEN n
    ELSE IF is_ascii_digit(input[i])
         THEN FoldDigits(input, i + 1, MulAdd(n, input[i] - 48))
         ELSE FoldDigits(input, i + 1, n)

\* parse_number_with_commas: "" and "-" are None
parse_number_with_commas(input) ==
    IF input = << >> \/ input = << 45 >>
    THEN [some |-> FALSE, value |-> U32Zero]
    ELSE [some |-> TRUE, value |-> FoldDigits(input, 1, U32Zero)]

\* the texts of tests::parse_numbers
TestNumbers ==
    { << 57, 57, 52, 44, 52, 56, 48 >>,
      << 56, 50, 44, 48, 49, 48 >>,
      << 49, 44, 48, 48, 48, 44, 48, 48, 48 >>,
      << 45 >>,
      << >>,
      << 51, 44, 52, 48, 48 >>,
      << 48 >> }

\* texts around the largest u32: "4,294,967,295", "4294967296",
\* "004294967295" and "99999999999"
LargeNumbers ==
    { << 52, 44, 50, 57, 52, 44, 57, 54, 55, 44, 50, 57, 53 >>,
      << 52, 50, 57, 52, 57, 54, 55, 50, 57, 54 >>,
      << 48, 48, 52, 50, 57, 52, 57, 54, 55, 50, 57, 53 >>,
      << 57, 57, 57, 57, 57, 57, 57, 57, 57, 57, 57 >> }

\* the characters put into the texts: '0', '9', ',', '-' and 'a'
NumberChars == {48, 57, 44, 45, 97}

\* the texts parsed: the ones above, the same with one character replaced,
\* and every text of at most MaxTextLen characters
NumberTexts ==
    TestNumbers \cup LargeNumbers
        \cup UNION {{[t EXCEPT ![k] = c] : k \in 1..Len(t), c \in NumberChars} :
                       t \in TestNumbers \cup LargeNumbers}
        \cup UNION {[1..n -> NumberChars] : n \in 0..MaxTextLen}

InitNumber ==
    /\ InitDatabase({})
    /\ \E input \in NumberTexts :
          merge = [phase |-> "number_input", input |-> input,
                   out |-> [some |-> FALSE, value |-> U32Zero]]

\* parse_number_with_commas(input)
ParseNumber ==
    /\ merge.phase = "number_input"
    /\ merge' = [merge EXCEPT !.phase = "number_parsed",
                      !.out = parse_number_with_commas(merge.input)]
    /\ UNCHANGED dbVars

NextNumber == ParseNumber

SpecNumber == InitNumber /\ [][NextNumber]_vars

RECURSIVE DigitsOf(_)
\* the decimal digits in a text, in order
DigitsOf(input) ==
    IF input = << >> THEN << >>
    ELSE IF Head(input) \in 48..57
         THEN << Head(input) - 48 >> \o DigitsOf(Tail(input))
         ELSE DigitsOf(Tail(input))

RECURSIVE StripZeros(_)
\* a digit sequence without its leading zeros (zero is the empty sequence)
StripZeros(digits) ==
    IF digits /= << >> /\ Head(digits) = 0 THEN StripZeros(Tail(digits)) ELSE digits

RECURSIVE DigitsLess(_, _)
\* the order of two digit sequences of equal length
DigitsLess(a, b) ==
    /\ a /= << >>
    /\ \/ Head(a) < Head(b)
       \/ Head(a) = Head(b) /\ DigitsLess(Tail(a), Tail(b))

\* the digits of 2^32 - 1
U32MaxDigits == << 4, 2, 9, 4, 9, 6, 7, 2, 9, 5 >>

\* the number written by the digits fits a u32
FitsU32(digits) ==
    LET d == StripZeros(digits) IN
    \/ Len(d) < Len(U32MaxDigits)
    \/ Len(d) = Len(U32MaxDigits) /\ (d = U32MaxDigits \/ DigitsLess(d, U32MaxDigits))

RECURSIVE DecimalOf(_)
\* the decimal digits of a u32 held in limbs, by repeated division by ten
DecimalOf(n) ==
    IF n.hi = 0 /\ n.lo = 0 THEN << >>
    ELSE LET rest == (n.hi % 10) * LimbBase + n.lo IN
         DecimalOf([hi |-> n.hi \div 10, lo |-> rest \div 10, overflow |-> FALSE])
             \o << rest % 10 >>

\* C40: the result is None exactly for "" and "-"; for every other text
\* whose digits write a number that fits 32 bits the arithmetic does not
\* overflow and the result is that number, the other characters ignored
C40_ParseNumberWithCommas ==
    merge.phase = "number_parsed" =>
        /\ ~merge.out.some <=> merge.input \in {<< >>, << 45 >>}
        /\ (merge.out.some /\ FitsU32(DigitsOf(merge.input))) =>
               /\ ~merge.out.value.overflow
               /\ DecimalOf(merge.out.value) = StripZeros(DigitsOf(merge.input))

\* "4,294,967,295" was parsed to the largest u32
C40_Witness ==
    /\ merge.phase = "number_parsed"
    /\ merge.input = << 52, 44, 50, 57, 52, 44, 57, 54, 55, 44, 50, 57, 53 >>
    /\ merge.out.some
    /\ merge.out.value = [hi |-> LimbBase - 1, lo |-> LimbBase - 1, overflow |-> FALSE]


(***************************************************************************)
(* get_scores_inner from the arrays of the page on: the fields of ddIndex  *)
(* and of the nine combo type arrays as the numbers they write, the cells  *)
(* of the nine score arrays as texts.                                      *)
(***************************************************************************)
\* largest number of songs on the page
MaxSongs == 2

\* [0, 1, 2, 3, 4, 5, 6, 7, 8]: the charts of a song on Skill Attack
NumCharts == 9
ChartIndex == 0..(NumCharts - 1)

\* u16::MAX: SkillAttackIndex is a u16
U16Max == 65535

\* Result<SkillAttackScores>
ScoresOk(user_scores) == [ok |-> TRUE, err |-> "", user_scores |-> user_scores]
ScoresErr(err) == [ok |-> FALSE, err |-> err, user_scores |-> EmptyMap]

\* Option<ScoreRow>::None
NoScoreRow == [some |-> FALSE, score |-> U32Zero, lamp |-> FailOrPass]

\* a plausible slip: the lamp taken from the first combo type array
score_rows_first_lamps(scores, combo_types, i) ==
    [diff_index \in ChartIndex |->
        IF scores[diff_index][i].some
        THEN [some |-> TRUE, score |-> scores[diff_index][i].value,
              lamp |-> combo_types[0][i]]
        ELSE NoScoreRow]

\* the score rows of the i-th song: a row for every chart whose cell is
\* Some, with the lamp of the same chart and position
score_rows(scores, combo_types, i) ==
    [diff_index \in ChartIndex |->
        IF scores[diff_index][i].some
        THEN [some |-> TRUE, score |-> scores[diff_index][i].value,
              lamp |-> combo_types[diff_index][i]]
        ELSE NoScoreRow]

\* the loop over song_indices: a later insert of the same index replaces
\* the earlier one
InsertAll(song_indices, scores, combo_types) ==
    [k \in {song_indices[i] : i \in 1..Len(song_indices)} |->
        score_rows(scores, combo_types,
                   CHOOSE i \in 1..Len(song_indices) :
                       /\ song_indices[i] = k
                       /\ \A j \in (i + 1)..Len(song_indices) : song_indices[j] /= k)]

\* get_scores_inner after the arrays are cut out of the page
get_scores_inner(index_fields, score_cells, combo_fields) ==
    IF \E i \in 1..Len(index_fields) : index_fields[i] > U16Max
    THEN ScoresErr("index parse")
    ELSE
    LET song_indices == index_fields
        scores == [d \in ChartIndex |->
                      [i \in 1..Len(score_cells[d]) |->
                          parse_number_with_commas(score_cells[d][i])]]
    IN
    IF \E d \in ChartIndex : \E i \in 1..Len(combo_fields[d]) :
           parse_combo_type(combo_fields[d][i]).kind /= "ok"
    THEN ScoresErr("combo type")
    ELSE
    LET combo_types == [d \in ChartIndex |->
                           [i \in 1..Len(combo_fields[d]) |->
                               parse_combo_type(combo_fields[d][i]).lamp]]
    IN
    IF ~(\A d \in ChartIndex :
            /\ Len(scores[d]) = Len(song_indices)
            /\ Len(combo_types[d]) = Len(song_indices))
    THEN ScoresErr("Array lengths didn't match!")
    ELSE ScoresOk(InsertAll(song_indices, scores, combo_types))

\* the fields of ddIndex: two indexes and a number that is no u16
IndexFields == {100, 101, U16Max + 1}

\* the cells of a score array: "-" and "3,400"
ScoreCells == {<< 45 >>, << 51, 44, 52, 48, 48 >>}

\* the fields of a combo type array: two lamps and an unknown code
ComboFields == {2, 3, 4}

\* a page: the arrays of chart c are the given ones, the arrays of the
\* other charts have one entry per song, "-" and 0
ScorePage(idx, c, cells, combos) ==
    [index_fields |-> idx,
     score_cells |-> [d \in ChartIndex |->
                         IF d = c THEN cells ELSE [i \in 1..Len(idx) |-> << 45 >>]],
     combo_fields |-> [d \in ChartIndex |->
                          IF d = c THEN combos ELSE [i \in 1..Len(idx) |-> 0]]]

\* the pages tried, for the first and the last chart: any score array of
\* up to one more entry than there are songs with any combo type array of
\* one entry per song, and any combo type array of up to one more entry
\* than there are songs with the score array of "-"
InitScorePage ==
    /\ InitDatabase({})
    /\ \E idx \in UNION {[1..n -> IndexFields] : n \in 1..MaxSongs},
          c \in {0, NumCharts - 1},
          cells \in UNION {[1..n -> ScoreCells] : n \in 0..(MaxSongs + 1)},
          combos \in UNION {[1..n -> ComboFields] : n \in 1..(MaxSongs + 1)} :
          /\ Len(combos) = Len(idx) \/ cells = [i \in 1..Len(idx) |-> << 45 >>]
          /\ merge = [phase |-> "page_input", page |-> ScorePage(idx, c, cells, combos),
                      out |-> ScoresErr("")]

\* get_scores_inner(webpage)
ParseScorePage ==
    /\ merge.phase = "page_input"
    /\ merge' = [merge EXCEPT !.phase = "page_parsed",
                      !.out = get_scores_inner(merge.page.index_fields,
                                               merge.page.score_cells,
                                               merge.page.combo_fields)]
    /\ UNCHANGED dbVars

NextScorePage == ParseScorePage

SpecScorePage == InitScorePage /\ [][NextScorePage]_vars

\* the last position of ddIndex that lists the index k
LastListed(index_fields, k) ==
    CHOOSE i \in 1..Len(index_fields) :
        /\ index_fields[i] = k
        /\ \A j \in 1..Len(index_fields) : index_fields[j] = k => j <= i

TaskOrderAwaitFirst == << "fetch", "await_song_list", "send", "returned" >>

\* the awaits of update_scores_and_songs_from_skill_attack in order
TaskOrder == << "fetch", "send", "await_song_list", "returned" >>

\* the point of the function after the given one
After(step) ==
    TaskOrder[(CHOOSE k \in 1..(Len(TaskOrder) - 1) : TaskOrder[k] = step) + 1]

\* the result of the call when it gets to the given point
ResultAt(step, result) == IF step = "returned" THEN "ok" ELSE result

\* the score results of the call: over indexes of the song lists (100,
\* 101) and one of no song (102)
OneshotResults == UNION {[ids -> AttrTables] : ids \in SUBSET {100, 101, 102}}

InitOneshot ==
    /\ InitDatabase({})
    /\ \E map \in AttrMaps, sa_scores \in OneshotResults, pull \in SongListPulls :
          merge = [phase |-> "oneshot", task |-> "fetch", result |-> "none",
                   sender |-> "held", receiver |-> "waiting",
                   song_list |-> [ready |-> FALSE, songs |-> << >>],
                   scores |-> map, before |-> map,
                   sa_scores |-> sa_scores,
                   combined |-> from_combining_song_lists(pull.sanbai, pull.sa)]

\* skill_attack::get_scores_and_song_data(http, self.ddr_code).await?: an
\* Err returns it and drops the sender
GetScoresAndSongData ==
    /\ merge.task = "fetch"
    /\ \/ merge' = [merge EXCEPT !.task = After("fetch"),
                                 !.result = ResultAt(After("fetch"), @)]
       \/ merge' = [merge EXCEPT !.task = "returned", !.result = "err_fetch",
                                 !.sender = "dropped"]
    /\ UNCHANGED dbVars

\* sa_song_sender.send(sa_songs).map_err(..)?: send fails when the
\* receiver was dropped
SendSongs ==
    /\ merge.task = "send"
    /\ IF merge.receiver = "dropped"
       THEN merge' = [merge EXCEPT !.task = "returned", !.result = "err_closed",
                                   !.sender = "dropped"]
       ELSE merge' = [merge EXCEPT !.task = After("send"),
                                   !.result = ResultAt(After("send"), @),
                                   !.sender = "sent"]
    /\ UNCHANGED dbVars

\* song_list.await, then self.update_skill_attack_inner(song_list, sa_scores)
AwaitSongList ==
    /\ merge.task = "await_song_list"
    /\ merge.song_list.ready
    /\ merge' = [merge EXCEPT !.task = After("await_song_list"),
                      !.result = ResultAt(After("await_song_list"), @),
                      !.scores = update_skill_attack_inner(merge.scores,
                                                           merge.song_list.songs,
                                                           merge.sa_scores)]
    /\ UNCHANGED dbVars

\* the consumer receives the songs that were sent
ReceiveSongs ==
    /\ merge.receiver = "waiting"
    /\ merge.sender = "sent"
    /\ merge' = [merge EXCEPT !.receiver = "received"]
    /\ UNCHANGED dbVars

\* the consumer finds the channel closed: the sender was dropped unused
ReceiveClosed ==
    /\ merge.receiver = "waiting"
    /\ merge.sender = "dropped"
    /\ merge' = [merge EXCEPT !.receiver = "closed"]
    /\ UNCHANGED dbVars

\* the consumer resolves the song_list future with the song list combined
\* from the received songs (merge.combined)
BuildSongList ==
    /\ merge.receiver = "received"
    /\ merge' = [merge EXCEPT !.receiver = "built",
                      !.song_list = [ready |-> TRUE, songs |-> merge.combined]]
    /\ UNCHANGED dbVars

\* the consumer gives up before anything was sent
DropReceiver ==
    /\ merge.receiver = "waiting"
    /\ merge.sender = "held"
    /\ merge' = [merge EXCEPT !.receiver = "dropped"]
    /\ UNCHANGED dbVars

PlayerTaskStep == GetScoresAndSongData \/ SendSongs \/ AwaitSongList

ConsumerStep == ReceiveSongs \/ ReceiveClosed \/ BuildSongList

NextOneshot == PlayerTaskStep \/ ConsumerStep \/ DropReceiver

\* the fetch ends, and a task that can go on is polled
SpecOneshot ==
    InitOneshot /\ [][NextOneshot]_vars /\ WF_vars(PlayerTaskStep) /\ WF_vars(ConsumerStep)

\* C39: the call waits for the song list only after it has sent the
\* songs; with a consumer that combines the song list from the songs it
\* receives, every call returns; a call that finds the receiver dropped
\* returns an error and leaves the scores as they were
C39_SendBeforeAwait ==
    /\ [](merge.task = "await_song_list" => merge.sender = "sent")
    /\ []((merge.task = "returned" /\ merge.receiver = "dropped")
              => merge.result \in {"err_closed", "err_fetch"} /\ merge.scores = merge.before)
    /\ (merge.task /= "returned") ~> (merge.task = "returned")

\* a call returned Ok after the consumer had combined the song list from
\* the songs sent to it, and the player's scores changed
C39_Witness ==
    /\ merge.phase = "oneshot"
    /\ merge.task = "returned"
    /\ merge.result = "ok"
    /\ merge.receiver = "built"
    /\ merge.song_list.ready
    /\ merge.scores /= merge.before

====
